---------------------------- MODULE Spec2Model ----------------------------
(***************************************************************************)
(* A model of chill-json's repair engine (src/src/lib.rs): the driver      *)
(* parse_value / repair_json, the nine state handlers and the ten repair   *)
(* strategies, acting on a ParseState (input, position, stack, output).    *)
(*                                                                         *)
(* Text is a sequence of one-character strings.  `position` is the 0-based *)
(* character index of the source, so the current character is              *)
(* input[position + 1].                                                    *)
(***************************************************************************)
EXTENDS Integers, Sequences, FiniteSets, TLC

VARIABLES
    json_str,   \* the argument of parse_value
    auto_repair, max_repair_attempts,   \* ParserOptions consulted by the driver
    pc,         \* the driver's position: start, prelude, loop, finish, done
    built,      \* whether ParseState::new has run
    input, position, stack, output,     \* the ParseState
    error,      \* the strict parser's error message handed to repair_json
    attempts,   \* repair_json's loop counter
    result,     \* what parse_value returned
    repaired,   \* what repair_json returned: [ok, text]
    log,        \* the handlers and strategies invoked so far, in order
    prev,       \* the ParseState before the last handler or strategy ran
    parser,     \* the FuzzyJsonParser: state_handlers, repair_strategies, options
    calls,      \* the parse_value calls running on the parser at the same time
    scan,       \* the locals of aggressively_close_scopes
    host        \* what the binding's hello handed to the host runtime

vars == <<json_str, auto_repair, max_repair_attempts, pc, built, input, position,
          stack, output, error, attempts, result, repaired, log, prev, parser, calls,
          scan, host>>

-----------------------------------------------------------------------------
(* Characters *)

DQ == "\""
SQ == "'"
BS == "\\"
SP == " "
NL == "\n"
BT == "BACKTICK"   \* the backtick character (SANY cannot lex it inside a string)
NoChar == "None"    \* Option<char>::None

\* char::is_whitespace, over the characters of the model
IsWhitespace(c) == c \in {" ", "\n", "\t", "\r"}

\* char::is_ascii_digit
IsAsciiDigit(c) == c \in {"0", "1", "2", "3", "4", "5", "6", "7", "8", "9"}

LowerLetters == {"a", "b", "c", "d", "e", "f", "g", "h", "i", "j", "k", "l", "m",
                 "n", "o", "p", "q", "r", "s", "t", "u", "v", "w", "x", "y", "z"}
UpperLetters == {"A", "B", "C", "D", "E", "F", "G", "H", "I", "J", "K", "L", "M",
                 "N", "O", "P", "Q", "R", "S", "T", "U", "V", "W", "X", "Y", "Z"}

\* char::is_alphabetic, over the characters of the model
IsAlphabetic(c) == c \in LowerLetters \cup UpperLetters

\* VALID_KEY_FIRST_CHARS.contains(&c.to_ascii_lowercase())
IsValidKeyFirstChar(c) == c \in LowerLetters \cup UpperLetters \cup {"_"}

\* VALID_KEY_REST_OF_CHARS.contains(&c)
IsValidKeyRestChar(c) == IsAsciiDigit(c)

-----------------------------------------------------------------------------
(* Text helpers (str methods) *)

\* str::starts_with
StartsWith(s, p) == Len(s) >= Len(p) /\ SubSeq(s, 1, Len(p)) = p

\* str::ends_with(char)
EndsWithChar(s, c) == Len(s) > 0 /\ s[Len(s)] = c

\* s[i..] with a 1-based i
From(s, i) == IF i > Len(s) THEN <<>> ELSE SubSeq(s, i, Len(s))

RECURSIVE TrimStart(_)
TrimStart(s) ==
    IF s # <<>> /\ IsWhitespace(Head(s)) THEN TrimStart(Tail(s)) ELSE s

RECURSIVE TrimEnd(_)
TrimEnd(s) ==
    IF s # <<>> /\ IsWhitespace(s[Len(s)])
    THEN TrimEnd(SubSeq(s, 1, Len(s) - 1)) ELSE s

\* str::trim
Trim(s) == TrimEnd(TrimStart(s))

\* output.matches(c).count()
RECURSIVE CountChar(_, _)
CountChar(s, c) ==
    IF s = <<>> THEN 0
    ELSE (IF Head(s) = c THEN 1 ELSE 0) + CountChar(Tail(s), c)

RECURSIVE Concat(_)
Concat(ss) == IF ss = <<>> THEN <<>> ELSE Head(ss) \o Concat(Tail(ss))

-----------------------------------------------------------------------------
(* The strict JSON parser (serde_json::from_str::<Value>), the driver's     *)
(* external collaborator.  It is modelled from the JSON grammar: a value is *)
(* a record [t, s, e, o]: t the kind, s the characters of a string, the     *)
(* lexeme of a number or the name of a literal, e the elements of an array, *)
(* o the set of <<key, value>> members of an object (the last occurrence of *)
(* a key wins, and member order does not matter to equality).               *)

NoValue == [t |-> "none", s |-> <<>>, e |-> <<>>, o |-> {}]
StrValue(cs) == [t |-> "str", s |-> cs, e |-> <<>>, o |-> {}]
NumValue(lex) == [t |-> "num", s |-> lex, e |-> <<>>, o |-> {}]
LitValue(name) == [t |-> "lit", s |-> name, e |-> <<>>, o |-> {}]
ArrValue(vs) == [t |-> "arr", s |-> <<>>, e |-> vs, o |-> {}]
ObjValue(ms) == [t |-> "obj", s |-> <<>>, e |-> <<>>, o |-> ms]

\* Map::insert: a later member replaces an earlier one with the same key
InsertMember(ms, k, v) == {m \in ms : m[1] # k} \cup {<<k, v>>}

Fail == [ok |-> FALSE, val |-> NoValue, next |-> 0]
Good(v, n) == [ok |-> TRUE, val |-> v, next |-> n]

\* JSON whitespace
IsJsonWs(c) == c \in {" ", "\n", "\t", "\r"}

IsHexDigit(c) == IsAsciiDigit(c) \/ c \in {"a", "b", "c", "d", "e", "f",
                                            "A", "B", "C", "D", "E", "F"}

RECURSIVE SkipWs(_, _)
SkipWs(t, i) == IF i <= Len(t) /\ IsJsonWs(t[i]) THEN SkipWs(t, i + 1) ELSE i

\* the character an escape \c stands for
Unescape(c) ==
    CASE c = "n" -> "\n"
      [] c = "t" -> "\t"
      [] c = "r" -> "\r"
      [] c = "b" -> "\\b"
      [] c = "f" -> "\\f"
      [] OTHER -> c

\* the characters of a string whose opening quote is before t[j]
RECURSIVE StrictStringBody(_, _, _)
StrictStringBody(t, j, acc) ==
    IF j > Len(t) THEN Fail
    ELSE IF t[j] = DQ THEN Good(StrValue(acc), j + 1)
    ELSE IF t[j] = BS THEN
        IF j + 1 > Len(t) THEN Fail
        ELSE IF t[j + 1] \in {DQ, BS, "/", "b", "f", "n", "r", "t"}
             THEN StrictStringBody(t, j + 2, Append(acc, Unescape(t[j + 1])))
        ELSE IF t[j + 1] = "u" /\ j + 5 <= Len(t)
                /\ \A k \in (j + 2)..(j + 5) : IsHexDigit(t[k])
             THEN StrictStringBody(t, j + 6,
                      acc \o <<"\\u">> \o SubSeq(t, j + 2, j + 5))
        ELSE Fail
    ELSE IF t[j] \in {"\n", "\t", "\r"} THEN Fail    \* a raw control character
    ELSE StrictStringBody(t, j + 1, Append(acc, t[j]))

RECURSIVE SkipDigits(_, _)
SkipDigits(t, i) == IF i <= Len(t) /\ IsAsciiDigit(t[i]) THEN SkipDigits(t, i + 1) ELSE i

\* -? (0 | [1-9][0-9]*) (. [0-9]+)? ([eE] [+-]? [0-9]+)?
StrictNumber(t, i) ==
    LET a == IF i <= Len(t) /\ t[i] = "-" THEN i + 1 ELSE i
        b == IF a <= Len(t) /\ t[a] = "0" THEN a + 1 ELSE SkipDigits(t, a)
        okInt == b > a /\ ~(t[a] = "0" /\ b <= Len(t) /\ IsAsciiDigit(t[b]))
        hasFrac == b <= Len(t) /\ t[b] = "."
        c == IF hasFrac THEN SkipDigits(t, b + 1) ELSE b
        okFrac == hasFrac => c > b + 1
        hasExp == c <= Len(t) /\ t[c] \in {"e", "E"}
        d == IF hasExp /\ c + 1 <= Len(t) /\ t[c + 1] \in {"+", "-"} THEN c + 2 ELSE c + 1
        f == IF hasExp THEN SkipDigits(t, d) ELSE c
        okExp == hasExp => f > d
    IN  IF okInt /\ okFrac /\ okExp THEN Good(NumValue(SubSeq(t, i, f - 1)), f) ELSE Fail

StrictLiteral(t, i) ==
    IF StartsWith(From(t, i), <<"t", "r", "u", "e">>)
        THEN Good(LitValue(<<"true">>), i + 4)
    ELSE IF StartsWith(From(t, i), <<"f", "a", "l", "s", "e">>)
        THEN Good(LitValue(<<"false">>), i + 5)
    ELSE IF StartsWith(From(t, i), <<"n", "u", "l", "l">>)
        THEN Good(LitValue(<<"null">>), i + 4)
    ELSE Fail

RECURSIVE StrictValue(_, _), StrictElements(_, _, _), StrictMembers(_, _, _)

\* a value starting at t[i] (after whitespace); next is the index after it
StrictValue(t, i0) ==
    LET i == SkipWs(t, i0) IN
    IF i > Len(t) THEN Fail
    ELSE IF t[i] = DQ THEN StrictStringBody(t, i + 1, <<>>)
    ELSE IF t[i] = "-" \/ IsAsciiDigit(t[i]) THEN StrictNumber(t, i)
    ELSE IF t[i] = "[" THEN
        LET j == SkipWs(t, i + 1) IN
        IF j <= Len(t) /\ t[j] = "]" THEN Good(ArrValue(<<>>), j + 1)
        ELSE StrictElements(t, j, <<>>)
    ELSE IF t[i] = "{" THEN
        LET j == SkipWs(t, i + 1) IN
        IF j <= Len(t) /\ t[j] = "}" THEN Good(ObjValue({}), j + 1)
        ELSE StrictMembers(t, j, {})
    ELSE StrictLiteral(t, i)

\* the elements of an array from t[i] on, up to and including its `]`
StrictElements(t, i, acc) ==
    LET v == StrictValue(t, i) IN
    IF ~v.ok THEN Fail
    ELSE LET j == SkipWs(t, v.next) IN
         IF j > Len(t) THEN Fail
         ELSE IF t[j] = "]" THEN Good(ArrValue(Append(acc, v.val)), j + 1)
         ELSE IF t[j] = "," THEN StrictElements(t, j + 1, Append(acc, v.val))
         ELSE Fail

\* the members of an object from t[i] on, up to and including its `}`
StrictMembers(t, i0, acc) ==
    LET i == SkipWs(t, i0) IN
    IF i > Len(t) \/ t[i] # DQ THEN Fail
    ELSE LET k == StrictStringBody(t, i + 1, <<>>) IN
         IF ~k.ok THEN Fail
         ELSE LET c == SkipWs(t, k.next) IN
              IF c > Len(t) \/ t[c] # ":" THEN Fail
              ELSE LET v == StrictValue(t, c + 1) IN
                   IF ~v.ok THEN Fail
                   ELSE LET j == SkipWs(t, v.next)
                            ms == InsertMember(acc, k.val.s, v.val)
                        IN  IF j > Len(t) THEN Fail
                            ELSE IF t[j] = "}" THEN Good(ObjValue(ms), j + 1)
                            ELSE IF t[j] = "," THEN StrictMembers(t, j + 1, ms)
                            ELSE Fail

\* serde_json::from_str: one value, then nothing but whitespace
StrictParse(t) ==
    LET v == StrictValue(t, 1) IN
    IF v.ok /\ SkipWs(t, v.next) > Len(t) THEN [ok |-> TRUE, val |-> v.val]
    ELSE [ok |-> FALSE, val |-> NoValue]

StrictAccepts(t) == StrictParse(t).ok

\* The Display text of a serde_json syntax error for text t.  repair_json only
\* asks whether it contains "unexpected end", "unclosed", "expected" with
\* "quote", or "missing"; of serde_json's messages only "unexpected end of hex
\* escape" contains one of them, and it needs a \u escape of a lone surrogate.
StrictErrorMessage(t) ==
    IF SkipWs(t, 1) > Len(t) THEN "EOF while parsing a value"
    ELSE IF StrictValue(t, 1).ok THEN "trailing characters"
    ELSE "expected value"

\* error.contains(needle)
ErrorContains(msg, needle) ==
    \/ needle = "unexpected end" /\ msg = "unexpected end of hex escape"
    \/ needle = "expected" /\ msg \in {"expected value", "unexpected end of hex escape"}

-----------------------------------------------------------------------------
(* ParseState and its methods.  A ParseState is a record                    *)
(* [input, position, stack, output]; a JsonContext is its variant's name.   *)

JsonContext == {"Root", "Object", "Array", "DoubleQuoteProperty", "SingleQuoteProperty",
                "DoubleQuoteValue", "SingleQuoteValue", "Colon"}

\* ParseState::new
NewState(text) == [input |-> text, position |-> 0, stack |-> <<"Root">>, output |-> <<>>]

CurrentChar(st) ==
    IF st.position < Len(st.input) THEN st.input[st.position + 1] ELSE NoChar

PeekChars(st, count) ==
    IF st.position >= Len(st.input) THEN <<>>
    ELSE SubSeq(st.input, st.position + 1,
                IF st.position + count <= Len(st.input) THEN st.position + count
                ELSE Len(st.input))

\* advance adds count to position whatever is left of the input
Advance(st, count) == [st EXCEPT !.position = @ + count]

Remaining(st) == From(st.input, st.position + 1)

CurrentContext(st) == IF st.stack = <<>> THEN "Root" ELSE st.stack[Len(st.stack)]

IsSqKeyOrValue(st) == CurrentContext(st) \in {"SingleQuoteValue", "SingleQuoteProperty"}
IsKeyOrValue(st) ==
    CurrentContext(st) \in {"SingleQuoteValue", "DoubleQuoteValue",
                            "SingleQuoteProperty", "DoubleQuoteProperty"}
IsDqKeyOrValue(st) == CurrentContext(st) \in {"DoubleQuoteValue", "DoubleQuoteProperty"}
IsValue(st) == CurrentContext(st) \in {"SingleQuoteValue", "DoubleQuoteValue"}
IsProp(st) == CurrentContext(st) \in {"SingleQuoteProperty", "DoubleQuoteProperty"}

\* JsonContext::is_key
IsKey(c) == c \in {"DoubleQuoteProperty", "SingleQuoteProperty"}

IsFinished(st) == st.position >= Len(st.input)

PushContext(st, c) == [st EXCEPT !.stack = Append(@, c)]

\* a pop_context without the length test
PopContextAny(st) == [st EXCEPT !.stack = SubSeq(@, 1, Len(@) - 1)]

\* pop_context leaves a stack of one frame alone
PopContext(st) ==
    IF Len(st.stack) > 1 THEN [st EXCEPT !.stack = SubSeq(@, 1, Len(@) - 1)] ELSE st

\* state.output.push / push_str
Emit(st, cs) == [st EXCEPT !.output = @ \o cs]

-----------------------------------------------------------------------------
(* State handlers *)

BSN == <<BS, "n">>      \* the two characters backslash, n

AtWhitespace(st) == IsWhitespace(CurrentChar(st)) \/ StartsWith(Remaining(st), BSN)

\* the loop of WhitespaceHandler::handle; CommaHandler (996-1005) and
\* ColonHandler (1048-1056) run the same loop after their own token
RECURSIVE SkipWhitespaceRun(_)
SkipWhitespaceRun(st) ==
    IF AtWhitespace(st)
    THEN SkipWhitespaceRun(IF StartsWith(Remaining(st), BSN)
                           THEN Advance(st, 2) ELSE Advance(st, 1))
    ELSE st

\* the loop with the push of the character it consumes left in
RECURSIVE CopyWhitespaceRun(_)
CopyWhitespaceRun(st) ==
    IF AtWhitespace(st)
    THEN CopyWhitespaceRun(IF StartsWith(Remaining(st), BSN)
                           THEN Advance(Emit(st, BSN), 2)
                           ELSE Advance(Emit(st, <<CurrentChar(st)>>), 1))
    ELSE st

\* a handler that copies the run it consumes
WhitespaceHandleCopying(st) == CopyWhitespaceRun(st)

WhitespaceCanHandle(st) == AtWhitespace(st)
WhitespaceHandle(st) == SkipWhitespaceRun(st)

LitTrue == <<"t", "r", "u", "e">>
LitFalse == <<"f", "a", "l", "s", "e">>
LitNull == <<"n", "u", "l", "l">>
LitUndefined == <<"u", "n", "d", "e", "f", "i", "n", "e", "d">>

LiteralCanHandle(st) ==
    LET remaining == Trim(Remaining(st)) IN
    /\ CurrentContext(st) = "Array" \/ CurrentContext(st) = "Colon"
          \/ IsKey(CurrentContext(st))
    /\ \/ StartsWith(remaining, LitTrue)
       \/ StartsWith(remaining, LitFalse)
       \/ StartsWith(remaining, LitNull)
       \/ StartsWith(remaining, LitUndefined)

\* a handler that pops in an array too
LiteralHandlePopping(st) ==
    LET remaining == Remaining(st)
        s1 == IF StartsWith(remaining, LitTrue) THEN Advance(Emit(st, LitTrue), 4)
              ELSE IF StartsWith(remaining, LitFalse) THEN Advance(Emit(st, LitFalse), 5)
              ELSE IF StartsWith(remaining, LitNull) THEN Advance(Emit(st, LitNull), 4)
              ELSE IF StartsWith(remaining, LitUndefined) THEN Advance(Emit(st, LitNull), 9)
              ELSE st
    IN  PopContext(s1)

LiteralHandle(st) ==
    LET remaining == Remaining(st)
        s1 == IF StartsWith(remaining, LitTrue) THEN Advance(Emit(st, LitTrue), 4)
              ELSE IF StartsWith(remaining, LitFalse) THEN Advance(Emit(st, LitFalse), 5)
              ELSE IF StartsWith(remaining, LitNull) THEN Advance(Emit(st, LitNull), 4)
              ELSE IF StartsWith(remaining, LitUndefined) THEN Advance(Emit(st, LitNull), 9)
              ELSE st
    IN  IF CurrentContext(s1) # "Array" THEN PopContext(s1) ELSE s1

ColonCanHandle(st) == StartsWith(Remaining(st), <<":">>)

\* a ColonHandler that puts Colon on top of the key context
ColonHandleStacking(st) ==
    LET s1 == IF IsProp(st) THEN PushContext(st, "Colon") ELSE st
        s2 == IF StartsWith(Remaining(s1), <<":">>)
              THEN Advance(Emit(s1, <<":">>), 1) ELSE s1
    IN  SkipWhitespaceRun(s2)

ColonHandle(st) ==
    LET s1 == IF IsProp(st) THEN PushContext(PopContext(st), "Colon") ELSE st
        s2 == IF StartsWith(Remaining(s1), <<":">>)
              THEN Advance(Emit(s1, <<":">>), 1) ELSE s1
    IN  SkipWhitespaceRun(s2)

CommaCanHandle(st) == StartsWith(Remaining(st), <<",">>)

\* a handler that writes the comma whatever follows it
CommaHandlePlain(st) ==
    IF StartsWith(Remaining(st), <<",">>)
    THEN Emit(SkipWhitespaceRun(Advance(st, 1)), <<",">>)
    ELSE st

CommaHandle(st) ==
    IF StartsWith(Remaining(st), <<",">>)
    THEN LET s1 == SkipWhitespaceRun(Advance(st, 1)) IN
         IF CurrentChar(s1) = "}"
         THEN PopContext(Advance(Emit(s1, <<"}">>), 1))
         ELSE Emit(s1, <<",">>)
    ELSE st

\* a can_handle that knows the double quote only
StringCanHandleDouble(st) ==
    \/ IsDqKeyOrValue(st) /\ CurrentChar(st) = DQ
    \/ ~IsKeyOrValue(st) /\ CurrentChar(st) = DQ

StringCanHandle(st) ==
    \/ IsSqKeyOrValue(st) /\ CurrentChar(st) = SQ
    \/ IsDqKeyOrValue(st) /\ CurrentChar(st) = DQ
    \/ ~IsKeyOrValue(st) /\ (CurrentChar(st) = DQ \/ CurrentChar(st) = SQ)

\* the copy loop of StringHandler::handle (1221-1249)
RECURSIVE StringCopy(_, _)
StringCopy(st, boundary_char) ==
    LET ch == CurrentChar(st) IN
    IF ch = NoChar THEN st
    ELSE IF ch = boundary_char THEN
        LET s1 == Advance(Emit(st, <<DQ>>), 1) IN
        IF IsValue(s1) THEN PopContext(s1) ELSE s1
    ELSE IF ch = BS THEN
        LET s1 == Advance(Emit(st, <<BS>>), 1) IN
        IF CurrentChar(s1) # NoChar
        THEN StringCopy(Advance(Emit(s1, <<CurrentChar(s1)>>), 1), boundary_char)
        ELSE StringCopy(s1, boundary_char)
    ELSE StringCopy(Advance(Emit(st, <<ch>>), 1), boundary_char)

\* a StringHandler that opens a key frame even when a key frame is on top
StringOpenContextPushing(st, boundary_char) ==
    LET value == IF boundary_char = DQ THEN "DoubleQuoteValue" ELSE "SingleQuoteValue"
        prop == IF boundary_char = DQ THEN "DoubleQuoteProperty" ELSE "SingleQuoteProperty"
    IN  IF CurrentContext(st) = "Colon" THEN PushContext(PopContext(st), value)
        ELSE IF CurrentContext(st) = "Array" THEN PushContext(st, value)
        ELSE PushContext(st, prop)

\* the context the opening quote sets (1183-1219)
StringOpenContext(st, boundary_char) ==
    LET value == IF boundary_char = DQ THEN "DoubleQuoteValue" ELSE "SingleQuoteValue"
        prop == IF boundary_char = DQ THEN "DoubleQuoteProperty" ELSE "SingleQuoteProperty"
    IN  IF CurrentContext(st) = "Colon" THEN PushContext(PopContext(st), value)
        ELSE IF IsProp(st) THEN st
        ELSE IF CurrentContext(st) = "Array" THEN PushContext(st, value)
        ELSE PushContext(st, prop)

StringHandle(st) ==
    LET boundary_char == CurrentChar(st)
        s1 == Advance(Emit(st, <<DQ>>), 1)
    IN  StringCopy(StringOpenContext(s1, boundary_char), boundary_char)

NumberCanHandle(st) == IsAsciiDigit(CurrentChar(st)) \/ CurrentChar(st) = "-"

\* the lexeme loop of NumberHandler::handle (1280-1288)
RECURSIVE NumberCopy(_)
NumberCopy(st) ==
    LET ch == CurrentChar(st) IN
    IF IsAsciiDigit(ch) \/ ch \in {"-", "+", ".", "e", "E"}
    THEN NumberCopy(Advance(Emit(st, <<ch>>), 1))
    ELSE st

\* a NumberHandler that leaves the value context it pushed
NumberHandleKeepingValue(st) ==
    LET s1 == IF CurrentContext(st) = "Colon"
                  THEN PushContext(PopContext(st), "DoubleQuoteValue")
              ELSE IF CurrentContext(st) = "DoubleQuoteProperty"
                  THEN Emit(PushContext(PopContext(st), "DoubleQuoteValue"), <<":">>)
              ELSE IF CurrentContext(st) = "Array"
                  THEN PushContext(st, "DoubleQuoteValue")
              ELSE Emit(PushContext(st, "DoubleQuoteProperty"), <<DQ>>)
    IN  NumberCopy(s1)

NumberHandle(st) ==
    LET s1 == IF CurrentContext(st) = "Colon"
                  THEN PushContext(PopContext(st), "DoubleQuoteValue")
              ELSE IF CurrentContext(st) = "DoubleQuoteProperty"
                  THEN Emit(PushContext(PopContext(st), "DoubleQuoteValue"), <<":">>)
              ELSE IF CurrentContext(st) = "Array"
                  THEN PushContext(st, "DoubleQuoteValue")
              ELSE Emit(PushContext(st, "DoubleQuoteProperty"), <<DQ>>)
        s2 == NumberCopy(s1)
    IN  IF CurrentContext(s2) = "DoubleQuoteValue" THEN PopContext(s2)
        ELSE IF CurrentContext(s2) = "DoubleQuoteProperty"
                /\ (CurrentChar(s2) = NoChar \/ IsWhitespace(CurrentChar(s2))
                    \/ CurrentChar(s2) = ":" \/ CurrentChar(s2) = "}")
             THEN Emit(s2, <<DQ>>)
        ELSE s2

ObjectCanHandle(st) ==
    \/ CurrentChar(st) = "{"
    \/ CurrentContext(st) # "Root" /\ CurrentChar(st) = "}"

ObjectHandle(st) ==
    LET s1 == IF CurrentContext(st) = "Colon" THEN PopContext(st) ELSE st IN
    IF CurrentChar(s1) = "{" THEN Advance(PushContext(Emit(s1, <<"{">>), "Object"), 1)
    ELSE IF CurrentChar(s1) = "}" THEN Advance(PopContext(Emit(s1, <<"}">>)), 1)
    ELSE s1

ArrayCanHandle(st) == CurrentChar(st) = "[" \/ CurrentChar(st) = "]"

\* a handler that writes the bracket and leaves the cursor on it
ArrayHandleStaying(st) ==
    IF CurrentChar(st) = "[" THEN PushContext(Emit(st, <<"[">>), "Array")
    ELSE PopContext(Emit(st, <<"]">>))

ArrayHandle(st) ==
    LET s1 == IF CurrentContext(st) = "Colon" THEN PopContext(st) ELSE st IN
    IF CurrentChar(s1) = "[" THEN Advance(PushContext(Emit(s1, <<"[">>), "Array"), 1)
    ELSE IF CurrentChar(s1) = "]" THEN Advance(PopContext(Emit(s1, <<"]">>)), 1)
    ELSE s1

NoQuotesKeyCanHandle(st) ==
    CurrentContext(st) = "Object" /\ IsValidKeyFirstChar(CurrentChar(st))

\* the identifier loop of NoQuotesKeyHandler::handle (1140-1150): the closing
\* quote is pushed by the first character that ends the identifier
RECURSIVE NoQuotesKeyCopy(_)
NoQuotesKeyCopy(st) ==
    LET ch == CurrentChar(st) IN
    IF ch = NoChar THEN st
    ELSE IF IsValidKeyFirstChar(ch) \/ IsValidKeyRestChar(ch)
         THEN NoQuotesKeyCopy(Advance(Emit(st, <<ch>>), 1))
    ELSE Emit(st, <<DQ>>)

NoQuotesKeyHandle(st) ==
    NoQuotesKeyCopy(Emit(PushContext(st, "DoubleQuoteProperty"), <<DQ>>))

\* register_default_handlers: the order in which can_handle is asked
HandlerOrder == <<"WhitespaceHandler", "LiteralHandler", "ColonHandler", "CommaHandler",
                  "StringHandler", "NumberHandler", "ObjectHandler", "ArrayHandler",
                  "NoQuotesKeyHandler">>

CanHandle(h, st) ==
    CASE h = "WhitespaceHandler" -> WhitespaceCanHandle(st)
      [] h = "LiteralHandler" -> LiteralCanHandle(st)
      [] h = "ColonHandler" -> ColonCanHandle(st)
      [] h = "CommaHandler" -> CommaCanHandle(st)
      [] h = "StringHandler" -> StringCanHandle(st)
      [] h = "NumberHandler" -> NumberCanHandle(st)
      [] h = "ObjectHandler" -> ObjectCanHandle(st)
      [] h = "ArrayHandler" -> ArrayCanHandle(st)
      [] h = "NoQuotesKeyHandler" -> NoQuotesKeyCanHandle(st)

Handle(h, st) ==
    CASE h = "WhitespaceHandler" -> WhitespaceHandle(st)
      [] h = "LiteralHandler" -> LiteralHandle(st)
      [] h = "ColonHandler" -> ColonHandle(st)
      [] h = "CommaHandler" -> CommaHandle(st)
      [] h = "StringHandler" -> StringHandle(st)
      [] h = "NumberHandler" -> NumberHandle(st)
      [] h = "ObjectHandler" -> ObjectHandle(st)
      [] h = "ArrayHandler" -> ArrayHandle(st)
      [] h = "NoQuotesKeyHandler" -> NoQuotesKeyHandle(st)

\* the handler the loop of repair_json (392-433) invokes: the first in
\* registration order whose can_handle holds, or "none"
SelectedHandler(st) ==
    LET able == {i \in 1..Len(HandlerOrder) : CanHandle(HandlerOrder[i], st)} IN
    IF able = {} THEN "none"
    ELSE HandlerOrder[CHOOSE i \in able : \A j \in able : i <= j]

-----------------------------------------------------------------------------
(* Repair strategies *)

Fence == <<BT, BT, BT>>
FenceJson == <<BT, BT, BT, "j", "s", "o", "n">>
JsonFence == <<"j", "s", "o", "n", BT, BT, BT>>

TrailingCommaCanRepair(st, err) ==
    /\ CurrentChar(st) = ","
    /\ Len(PeekChars(st, 2)) = 2
    /\ PeekChars(st, 2)[2] \in {"}", "]"}

TrailingCommaRepair(st, err) == Advance(st, 1)

MissingQuotesCanRepair(st, err) ==
    \/ ErrorContains(err, "expected") /\ ErrorContains(err, "quote")
    \/ CurrentContext(st) = "DoubleQuoteProperty" /\ IsAlphabetic(CurrentChar(st))

\* the copy loop of MissingQuotesStrategy::repair (592-598)
RECURSIVE MissingQuotesCopy(_)
MissingQuotesCopy(st) ==
    LET ch == CurrentChar(st) IN
    IF ch = NoChar \/ IsWhitespace(ch) \/ ch \in {":", ",", "}", "]"} THEN st
    ELSE MissingQuotesCopy(Advance(Emit(st, <<ch>>), 1))

MissingQuotesRepair(st, err) ==
    LET quote == IF CurrentContext(st) = "SingleQuoteProperty" THEN SQ ELSE DQ IN
    Emit(MissingQuotesCopy(Emit(st, <<quote>>)), <<quote>>)

MissingBracketsCanRepair(st, err) ==
    ErrorContains(err, "missing") /\ (ErrorContains(err, "}") \/ ErrorContains(err, "]"))

MissingBracketsRepair(st, err) ==
    IF ErrorContains(err, "}") THEN PopContext(Emit(st, <<"}">>))
    ELSE IF ErrorContains(err, "]") THEN PopContext(Emit(st, <<"]">>))
    ELSE st

CodeBlockMarkersCanRepair(st, err) ==
    StartsWith(Remaining(st), Fence) \/ StartsWith(Remaining(st), JsonFence)

\* a repair that takes every fence for a bare one
CodeBlockMarkersRepairBare(st, err) ==
    IF StartsWith(Remaining(st), Fence) THEN Advance(st, 3) ELSE st

\* a repair that steps over seven characters whatever the marker is
CodeBlockMarkersRepairWide(st, err) == Advance(st, 7)

CodeBlockMarkersRepair(st, err) ==
    IF StartsWith(Remaining(st), JsonFence) THEN Advance(st, 7)
    ELSE IF StartsWith(Remaining(st), FenceJson) THEN Advance(st, 7)
    ELSE IF StartsWith(Remaining(st), Fence) THEN Advance(st, 3)
    ELSE st

\* the second conjunct is the code's: a character differs from `{` or from `[`
TrimStrayContentInBeginningCanRepair(st, err) ==
    /\ CurrentContext(st) = "Root"
    /\ (CurrentChar(st) # "{" \/ CurrentChar(st) # "[")

\* a repair that sends the cursor back to the start of the input
TrimStrayContentInBeginningRepairRewinding(st, err) == [st EXCEPT !.position = 0]

RECURSIVE TrimStrayContentInBeginningRepair(_, _)
TrimStrayContentInBeginningRepair(st, err) ==
    IF CurrentChar(st) # NoChar /\ CurrentChar(st) # "{" /\ CurrentChar(st) # "["
    THEN TrimStrayContentInBeginningRepair(Advance(st, 1), err)
    ELSE st

TrimStrayContentInEndCanRepair(st, err) == CurrentContext(st) = "Root"

RECURSIVE TrimStrayContentInEndRepair(_, _)
TrimStrayContentInEndRepair(st, err) ==
    IF CurrentChar(st) # NoChar
    THEN TrimStrayContentInEndRepair(Advance(st, 1), err)
    ELSE st

SingleQuotesCanRepair(st, err) == CurrentChar(st) = SQ

\* the copy loop of SingleQuotesStrategy::repair (740-750)
RECURSIVE SingleQuotesCopy(_)
SingleQuotesCopy(st) ==
    LET ch == CurrentChar(st) IN
    IF ch = NoChar THEN st
    ELSE IF ch = SQ THEN Advance(st, 1)
    ELSE SingleQuotesCopy(
            Advance(Emit(IF ch = DQ THEN Emit(st, <<BS>>) ELSE st, <<ch>>), 1))

SingleQuotesRepair(st, err) ==
    LET s1 == SingleQuotesCopy(Advance(Emit(st, <<DQ>>), 1))
        s2 == IF CurrentContext(s1) = "Colon" THEN PopContext(s1) ELSE s1
    IN  Emit(s2, <<DQ>>)

\* a trigger that looks at the error text only
TruncationCanRepairByError(st, err) ==
    \/ ErrorContains(err, "unexpected end")
    \/ ErrorContains(err, "unclosed")

TruncationCanRepair(st, err) ==
    \/ IsFinished(st)
    \/ ErrorContains(err, "unexpected end")
    \/ ErrorContains(err, "unclosed")
    \/ Trim(Remaining(st)) = <<>> /\ st.stack # <<>>

\* is_in_unclosed_string, from the scan state (in_string, escape_next, quote_char)
RECURSIVE UnclosedScan(_, _, _, _)
UnclosedScan(out, in_string, escape_next, quote_char) ==
    IF out = <<>> THEN in_string
    ELSE LET ch == Head(out) IN
         IF escape_next THEN UnclosedScan(Tail(out), in_string, FALSE, quote_char)
         ELSE IF ch = BS /\ in_string
              THEN UnclosedScan(Tail(out), in_string, TRUE, quote_char)
         ELSE IF ch \in {DQ, SQ} /\ ~in_string
              THEN UnclosedScan(Tail(out), TRUE, FALSE, ch)
         ELSE IF in_string /\ ch = quote_char
              THEN UnclosedScan(Tail(out), FALSE, FALSE, quote_char)
         ELSE UnclosedScan(Tail(out), in_string, FALSE, quote_char)

IsInUnclosedString(out) == UnclosedScan(out, FALSE, FALSE, DQ)

\* what one frame adds to needs_closing (797-826)
ClosingFor(context, out) ==
    CASE context = "Object" -> <<"}">>
      [] context = "Array" -> <<"]">>
      [] context \in {"DoubleQuoteProperty", "SingleQuoteProperty"} ->
            (IF (out = <<>> \/ out[Len(out)] # DQ) /\ CountChar(out, DQ) % 2 # 0
             THEN <<DQ>> ELSE <<>>) \o <<":", "0">>
      [] context = "Colon" -> <<"0">>
      [] context = "DoubleQuoteValue" ->
            IF EndsWithChar(out, DQ) /\ CountChar(out, DQ) % 2 # 0
            THEN <<DQ>> ELSE <<>>
      [] OTHER -> <<>>

\* a walk of the stack that forgets to start at the top
RECURSIVE NeedsClosingBottomUp(_, _)
NeedsClosingBottomUp(stk, out) ==
    IF stk = <<>> THEN <<>>
    ELSE ClosingFor(Head(stk), out) \o NeedsClosingBottomUp(Tail(stk), out)

\* needs_closing: the frames from the top of the stack down
RECURSIVE NeedsClosing(_, _)
NeedsClosing(stk, out) ==
    IF stk = <<>> THEN <<>>
    ELSE ClosingFor(stk[Len(stk)], out) \o NeedsClosing(SubSeq(stk, 1, Len(stk) - 1), out)

\* a close-out that keeps the trailing comma
KeepTrailingComma(out) == out

\* output without a trailing comma (836-839; also 940-943)
StripTrailingComma(out) ==
    IF EndsWithChar(TrimEnd(out), ",")
    THEN SubSeq(TrimEnd(out), 1, Len(TrimEnd(out)) - 1)
    ELSE out

CloseAllScopes(st) ==
    LET needs == NeedsClosing(st.stack, st.output)
        needs_closing == IF IsInUnclosedString(st.output) THEN <<DQ>> \o needs ELSE needs
    IN  [st EXCEPT !.output = StripTrailingComma(@) \o needs_closing]

\* a close-out that also empties the stack down to Root
TruncationRepairPopping(st, err) == [CloseAllScopes(st) EXCEPT !.stack = <<"Root">>]

TruncationRepair(st, err) == CloseAllScopes(st)

IncompletePropertyCanRepair(st, err) ==
    LET out == TrimEnd(st.output) IN
    \/ EndsWithChar(out, ":")
    \/ EndsWithChar(out, DQ) /\ StartsWith(Trim(Remaining(st)), <<":">>)

\* the loop that skips the stranded colon (904-913)
RECURSIVE SkipStrandedColon(_)
SkipStrandedColon(st) ==
    LET ch == CurrentChar(st) IN
    IF ch = NoChar THEN st
    ELSE IF ch = ":" THEN Advance(st, 1)
    ELSE IF ~IsWhitespace(ch) THEN st
    ELSE SkipStrandedColon(Advance(st, 1))

IncompletePropertyRepair(st, err) ==
    LET out == TrimEnd(st.output) IN
    IF EndsWithChar(out, ":") THEN Emit(st, <<" ">> \o LitNull)
    ELSE IF EndsWithChar(out, DQ) /\ StartsWith(Trim(Remaining(st)), <<":">>)
         THEN SkipStrandedColon(Emit(st, <<":", " ">> \o LitNull))
    ELSE st

IncompleteArrayCanRepair(st, err) ==
    /\ CurrentContext(st) = "Array"
    /\ EndsWithChar(TrimEnd(st.output), ",")
    /\ Trim(Remaining(st)) = <<>>

IncompleteArrayRepair(st, err) ==
    Emit([st EXCEPT !.output = StripTrailingComma(@)], <<"]">>)

\* priorities with IncompleteProperty above TruncationRepair
PriorityPropertyFirst(name) ==
    CASE name = "IncompletePropertyStrategy" -> 99
      [] name = "TruncationRepairStrategy" -> 95
      [] name = "CodeBlockMarkersStrategy" -> 90
      [] name = "SingleQuotesStrategy" -> 85
      [] name = "IncompleteArrayStrategy" -> 80
      [] name = "TrailingCommaStrategy" -> 80
      [] name = "MissingQuotesStrategy" -> 70
      [] name = "TrimStrayContentInBeginningStrategy" -> 70
      [] name = "TrimStrayContentInEndStrategy" -> 70
      [] name = "MissingBracketsStrategy" -> 60

\* RepairStrategy::priority
Priority(name) ==
    CASE name = "TruncationRepairStrategy" -> 95
      [] name = "CodeBlockMarkersStrategy" -> 90
      [] name = "SingleQuotesStrategy" -> 85
      [] name = "IncompletePropertyStrategy" -> 85
      [] name = "IncompleteArrayStrategy" -> 80
      [] name = "TrailingCommaStrategy" -> 80
      [] name = "MissingQuotesStrategy" -> 70
      [] name = "TrimStrayContentInBeginningStrategy" -> 70
      [] name = "TrimStrayContentInEndStrategy" -> 70
      [] name = "MissingBracketsStrategy" -> 60

\* strategies a caller may register: implementations of the RepairStrategy
\* trait with priorities below, between, equal to and above the defaults,
\* two of them with the same priority
CustomStrategies == {"custom_low", "custom_70", "custom_70_too", "custom_85", "custom_95",
                     "custom_top"}

CustomPriority(name) ==
    CASE name = "custom_low" -> 0
      [] name = "custom_70" -> 70
      [] name = "custom_70_too" -> 70
      [] name = "custom_85" -> 85
      [] name = "custom_95" -> 95
      [] name = "custom_top" -> 255

\* strategy.priority() of a strategy in the parser's list
PriorityOf(name) ==
    IF name \in CustomStrategies THEN CustomPriority(name) ELSE Priority(name)

\* the place of x in a list sorted by b.priority().cmp(&a.priority()): behind
\* every element that does not compare greater, so behind its equals
InsertByPriority(sorted, x) ==
    LET before == {i \in 1..Len(sorted) :
                     \A j \in 1..i : PriorityOf(sorted[j]) >= PriorityOf(x)}
        n == Cardinality(before)
    IN  SubSeq(sorted, 1, n) \o <<x>> \o SubSeq(sorted, n + 1, Len(sorted))

\* Vec::sort_by with that comparison: a stable sort, highest priority first
RECURSIVE SortByPriority(_)
SortByPriority(list) ==
    IF list = <<>> THEN <<>>
    ELSE InsertByPriority(SortByPriority(SubSeq(list, 1, Len(list) - 1)), list[Len(list)])

\* a register_strategy that pushes and does not sort
RegisterStrategyUnsorted(list, name) == Append(list, name)

\* register_strategy: push, then the sort
RegisterStrategy(list, name) == SortByPriority(Append(list, name))

\* register_default_strategies: the registration order
DefaultStrategies == <<"TruncationRepairStrategy", "SingleQuotesStrategy",
                       "CodeBlockMarkersStrategy", "IncompletePropertyStrategy",
                       "IncompleteArrayStrategy", "TrailingCommaStrategy",
                       "MissingQuotesStrategy", "MissingBracketsStrategy",
                       "TrimStrayContentInBeginningStrategy",
                       "TrimStrayContentInEndStrategy">>

RECURSIVE RegisterAll(_, _)
RegisterAll(list, names) ==
    IF names = <<>> THEN list
    ELSE RegisterAll(RegisterStrategy(list, Head(names)), Tail(names))

\* the parser's repair_strategies after construction
StrategyOrder == RegisterAll(<<>>, DefaultStrategies)

CanRepair(name, st, err) ==
    CASE name = "TruncationRepairStrategy" -> TruncationCanRepair(st, err)
      [] name = "CodeBlockMarkersStrategy" -> CodeBlockMarkersCanRepair(st, err)
      [] name = "SingleQuotesStrategy" -> SingleQuotesCanRepair(st, err)
      [] name = "IncompletePropertyStrategy" -> IncompletePropertyCanRepair(st, err)
      [] name = "IncompleteArrayStrategy" -> IncompleteArrayCanRepair(st, err)
      [] name = "TrailingCommaStrategy" -> TrailingCommaCanRepair(st, err)
      [] name = "MissingQuotesStrategy" -> MissingQuotesCanRepair(st, err)
      [] name = "MissingBracketsStrategy" -> MissingBracketsCanRepair(st, err)
      [] name = "TrimStrayContentInBeginningStrategy" ->
            TrimStrayContentInBeginningCanRepair(st, err)
      [] name = "TrimStrayContentInEndStrategy" -> TrimStrayContentInEndCanRepair(st, err)

Repair(name, st, err) ==
    CASE name = "TruncationRepairStrategy" -> TruncationRepair(st, err)
      [] name = "CodeBlockMarkersStrategy" -> CodeBlockMarkersRepair(st, err)
      [] name = "SingleQuotesStrategy" -> SingleQuotesRepair(st, err)
      [] name = "IncompletePropertyStrategy" -> IncompletePropertyRepair(st, err)
      [] name = "IncompleteArrayStrategy" -> IncompleteArrayRepair(st, err)
      [] name = "TrailingCommaStrategy" -> TrailingCommaRepair(st, err)
      [] name = "MissingQuotesStrategy" -> MissingQuotesRepair(st, err)
      [] name = "MissingBracketsStrategy" -> MissingBracketsRepair(st, err)
      [] name = "TrimStrayContentInBeginningStrategy" ->
            TrimStrayContentInBeginningRepair(st, err)
      [] name = "TrimStrayContentInEndStrategy" -> TrimStrayContentInEndRepair(st, err)

\* can_repair and repair of the strategies a caller may register
CustomCanRepair(name, st, err) ==
    CASE name = "custom_top" -> CurrentChar(st) = ","
      [] name = "custom_95" -> IsFinished(st)
      [] OTHER -> TRUE

CustomRepair(name, st, err) == Advance(Emit(st, <<SP>>), IF IsFinished(st) THEN 0 ELSE 1)

CanRepairOf(name, st, err) ==
    IF name \in CustomStrategies THEN CustomCanRepair(name, st, err)
    ELSE CanRepair(name, st, err)

RepairOf(name, st, err) ==
    IF name \in CustomStrategies THEN CustomRepair(name, st, err)
    ELSE Repair(name, st, err)

\* the strategy try_repair_strategies applies: the first of the parser's list
\* whose can_repair holds, or "none"
SelectedStrategy(st, err) ==
    LET able == {i \in 1..Len(StrategyOrder) : CanRepair(StrategyOrder[i], st, err)} IN
    IF able = {} THEN "none"
    ELSE StrategyOrder[CHOOSE i \in able : \A j \in able : i <= j]

\* try_repair_strategies: the state afterwards (no repair returns Err)
TryRepairStrategies(st, err) ==
    IF SelectedStrategy(st, err) = "none" THEN st
    ELSE Repair(SelectedStrategy(st, err), st, err)

-----------------------------------------------------------------------------
(* The inputs of the model *)

MaxTokens == 3      \* free-form inputs: at most this many tokens
MaxMembers == 2     \* documents: at most this many members or elements
SmallCap == 2       \* the small value of max_repair_attempts

DefaultMaxRepairAttempts == 1500

\* the tokens free-form inputs are made of
FreeTokens == {<<"{">>, <<"}">>, <<"[">>, <<"]">>, <<",">>, <<":">>, <<DQ>>, <<SQ>>,
               <<BS>>, <<SP>>, <<"a">>, <<"1">>}

RECURSIVE TokenStrings(_)
TokenStrings(n) ==
    IF n = 0 THEN {<<>>}
    ELSE LET shorter == TokenStrings(n - 1) IN
         shorter \cup {t \o w : t \in FreeTokens, w \in shorter}

\* the values a member or element of a document has
MemberValues == {<<"1">>, <<DQ, "x", DQ>>, LitTrue,
                 <<"{", DQ, "k", DQ, ":", "[", "1", "]", "}">>}

KeyNames == <<"a", "b", "c", "d">>
KeyText(i) == <<DQ, KeyNames[((i - 1) % Len(KeyNames)) + 1], DQ>>

\* the texts of n members (keyed) or n elements, comma-separated
RECURSIVE ItemLists(_, _)
ItemLists(n, keyed) ==
    IF n = 0 THEN {<<>>}
    ELSE {l \o (IF n > 1 THEN <<",">> ELSE <<>>)
            \o (IF keyed THEN KeyText(n) \o <<":">> ELSE <<>>) \o v :
          l \in ItemLists(n - 1, keyed), v \in MemberValues}

\* strict JSON documents: objects and arrays of up to MaxMembers items
ObjectDocs == {<<"{">> \o l \o <<"}">> : l \in UNION {ItemLists(n, TRUE) : n \in 0..MaxMembers}}
ArrayDocs == {<<"[">> \o l \o <<"]">> : l \in UNION {ItemLists(n, FALSE) : n \in 0..MaxMembers}}
BaseDocs == ObjectDocs \cup ArrayDocs

\* text in front of a document, and after one
Prefixes == {<<"H", "i", SP>>, <<SQ>>, <<SQ, "s", SP>>, Fence, FenceJson,
             FenceJson \o <<NL>>, <<"H", "i", SP>> \o FenceJson, Fence \o <<"1">>, BSN}
Suffixes == {Fence, <<SP, "o", "k">>, <<NL>> \o Fence \o <<SP, "o", "k">>,
             <<SP, "2">>, <<"}">>, <<"]">>, <<",", "}">>}

Prefixed == {p \o d : p \in Prefixes, d \in ObjectDocs}
Suffixed == {d \o s : d \in BaseDocs, s \in Suffixes}
Fenced == {f \o d \o c : f \in {Fence, FenceJson}, d \in ObjectDocs, c \in {<<>>, Fence}}

\* a document cut at any place
Truncated == UNION {{SubSeq(d, 1, k) : k \in 0..(Len(d) - 1)} : d \in BaseDocs}

\* a document with gap inserted after every `{`, `[`, `,` and `:` outside strings
\* (the documents' strings hold none of these)
RECURSIVE Spaced(_, _)
Spaced(d, gap) ==
    IF d = <<>> THEN <<>>
    ELSE <<Head(d)>> \o (IF Head(d) \in {"{", "[", ",", ":"} THEN gap ELSE <<>>)
            \o Spaced(Tail(d), gap)

Gaps == {<<SP>>, BSN, <<NL, SP>>}
SpacedDocs == {Spaced(d, g) : d \in BaseDocs, g \in Gaps}

\* a document with a comma, and a gap, in front of one of its closing brackets
CommaGaps == {<<>>, <<SP>>, <<SP>> \o BSN \o <<SP>>}
TrailingCommas ==
    UNION {{SubSeq(d, 1, i - 1) \o <<",">> \o g \o SubSeq(d, i, Len(d)) :
                i \in {j \in 2..Len(d) : d[j] \in {"}", "]"} /\ d[j - 1] \notin {"{", "["}},
                g \in CommaGaps} : d \in BaseDocs}

\* the index of the first q in d from i on (Len(d) + 1 when there is none)
RECURSIVE IndexFrom(_, _, _)
IndexFrom(d, i, q) == IF i > Len(d) \/ d[i] = q THEN i ELSE IndexFrom(d, i + 1, q)

\* a document with the quotes of its keys, of its string values, or of both,
\* replaced by kq and vq (the documents' strings hold no quote and no escape)
RECURSIVE Requote(_, _, _)
Requote(d, kq, vq) ==
    IF d = <<>> THEN <<>>
    ELSE IF Head(d) # DQ THEN <<Head(d)>> \o Requote(Tail(d), kq, vq)
    ELSE LET j == IndexFrom(d, 2, DQ)
             q == IF j < Len(d) /\ d[j + 1] = ":" THEN kq ELSE vq
         IN  q \o SubSeq(d, 2, j - 1) \o q \o Requote(SubSeq(d, j + 1, Len(d)), kq, vq)

SingleQuoted == {Requote(d, <<SQ>>, <<SQ>>) : d \in BaseDocs}
                  \cup {Requote(d, <<SQ>>, <<DQ>>) : d \in ObjectDocs}
                  \cup {Requote(d, <<DQ>>, <<SQ>>) : d \in ObjectDocs}
                  \cup {Spaced(Requote(d, <<SQ>>, <<SQ>>), <<SP>>) : d \in ObjectDocs}

\* a literal in an array, behind a colon, and behind a key without a colon
LiteralDocs ==
    UNION {{<<"[">> \o lit \o <<",", "]">>,
            <<"{", DQ, "a", DQ, ":">> \o lit \o <<",", "}">>,
            <<"{", DQ, "a", DQ, SP>> \o lit \o <<"}">>,
            <<"{", SQ, "a", SQ, SP>> \o lit \o <<"}">>} :
           lit \in {LitTrue, LitFalse, LitNull, LitUndefined}}

\* strings that hold a quote of the other kind, whitespace or a backslash-n
\* digraph, and keys without quotes
StringDocs ==
    {<<"{", SQ, "a", SQ, ":", SQ, "x", DQ, "y", SQ, "}">>,
     <<SQ, "x", DQ, "y", SQ>>,
     <<"[", SQ, "x", SP, "y", SQ, ",", "]">>,
     <<"{", DQ, "a", SP, "b", DQ, ":", DQ, "c">> \o BSN \o <<"d", DQ, SP>> \o BSN
        \o <<",", "}">>,
     <<"{", DQ, "a", DQ, ":", DQ, "x", SP, "y">>,
     <<"{", "A", "_", "1", ":", "1", "}">>,
     <<"{", "a", "b", "c", SP, ":", "1", "}">>,
     <<"{", "a", "b", "c">>}

\* texts that end with a fence, a backslash-n digraph or a literal
EndingDocs ==
    {FenceJson, JsonFence, <<"H", "i">> \o FenceJson,
     <<"[", "1">> \o BSN, <<"{", DQ, "a", DQ, ":">> \o BSN,
     <<"[">> \o LitUndefined, <<"{", DQ, "a", DQ, ":">> \o LitFalse,
     <<"[">> \o LitTrue \o <<",">> \o LitNull}

\* documents between a fence line and a closing fence, with line breaks inside,
\* and a document between prose whose strings hold whitespace and escapes
WrappedDocs ==
    {FenceJson \o <<NL>> \o Spaced(d, <<NL, SP>>) \o <<NL>> \o Fence : d \in BaseDocs}
    \cup {<<"H", "i", SP, "{", DQ, "a", SP, "b", DQ, SP, ":", SP, DQ, "c">> \o BSN
            \o <<"d", BS, DQ, DQ, ",", NL, DQ, "e", DQ, ":", "[", "-", "1", ".", "5",
                 "e", "2", ",", SP, "n", "u", "l", "l", "]", "}", SP, "o", "k">>}

\* strings that follow a key with no colon between, strings holding an
\* escaped quote, and numbers that follow a key
KeyedDocs ==
    {<<"{", DQ, "a", DQ, DQ, "b", DQ, "}">>,
     <<"{", SQ, "a", SQ, SP, SQ, "b", SQ, "}">>,
     <<"{", DQ, "a", DQ, ":", DQ, "x", BS, DQ, "y", DQ, "}">>,
     <<"[", SQ, "x", BS, SQ, "y", SQ, "]">>,
     <<"{", DQ, "a", DQ, SP, "1", "2", "}">>,
     <<"{", DQ, "a", DQ, "-", "1", ",", DQ, "b", DQ, ":", "2", "}">>,
     <<"{", SQ, "a", SQ, SP, "7", "}">>}

Inputs == TokenStrings(MaxTokens) \cup BaseDocs \cup Prefixed \cup Suffixed \cup Fenced
            \cup Truncated \cup SpacedDocs \cup TrailingCommas \cup SingleQuoted
            \cup LiteralDocs \cup StringDocs \cup EndingDocs
            \cup KeyedDocs \cup WrappedDocs

\* ParserOptions::default leaves allow_unquoted_keys off; no code reads the field
allow_unquoted_keys == FALSE

\* FuzzyJsonParser::with_options: the options given, the default strategies
\* registered one by one, the default handlers pushed in order
WithOptions(options) ==
    [options |-> options, repair_strategies |-> StrategyOrder,
     state_handlers |-> HandlerOrder]

\* the option records of the model: the defaults, a small cap, auto_repair off
OptionChoices == {<<TRUE, DefaultMaxRepairAttempts>>, <<TRUE, SmallCap>>,
                  <<FALSE, DefaultMaxRepairAttempts>>}

-----------------------------------------------------------------------------
(* The driver: parse_value and repair_json *)

St == [input |-> input, position |-> position, stack |-> stack, output |-> output]

\* nothing handed to the host runtime yet
NoHost == [ok |-> FALSE, value |-> NoValue]

\* the locals of aggressively_close_scopes as they are declared (211-216),
\* before a scan has started: no scope on scope_stack yet
NoScan == [in_string |-> FALSE, string_quote_char |-> DQ, escape_next |-> FALSE,
           scope_stack |-> <<>>]

NoResult == [kind |-> "none", value |-> NoValue, pos |-> 0]
OkResult(v) == [kind |-> "Ok", value |-> v, pos |-> 0]
ErrResult(kind, pos) == [kind |-> kind, value |-> NoValue, pos |-> pos]

NoState == [input |-> <<>>, position |-> 0, stack |-> <<>>, output |-> <<>>]

Init ==
    /\ json_str \in Inputs
    /\ \E o \in OptionChoices : auto_repair = o[1] /\ max_repair_attempts = o[2]
    /\ pc = "start"
    /\ built = FALSE
    /\ input = <<>> /\ position = 0 /\ stack = <<>> /\ output = <<>>
    /\ error = ""
    /\ attempts = 0
    /\ result = NoResult
    /\ repaired = [ok |-> FALSE, text |-> <<>>]
    /\ log = <<>>
    /\ prev = NoState
    /\ parser = WithOptions([auto_repair |-> auto_repair,
                             max_repair_attempts |-> max_repair_attempts])
    /\ calls = <<>>
    /\ scan = NoScan
    /\ host = NoHost

\* a parse_value that never takes the strict parser's Ok at its head
StrictFirstSkipped(text) == [ok |-> FALSE, val |-> NoValue]

\* what the strict parse at the head of parse_value decides
StrictFirst(text) == StrictParse(text)

\* parse_value, the strict parser accepts: Ok(value)
ParseValueStrict ==
    /\ pc = "start"
    /\ StrictFirst(json_str).ok
    /\ result' = OkResult(StrictFirst(json_str).val)
    /\ pc' = "done"
    /\ UNCHANGED <<json_str, auto_repair, max_repair_attempts, built, input, position,
                   stack, output, error, attempts, repaired, log, prev>>
    /\ UNCHANGED <<parser, calls, scan, host>>

\* parse_value, the strict parser rejects and auto_repair is off
ParseValueDisabled ==
    /\ pc = "start"
    /\ ~StrictFirst(json_str).ok
    /\ ~auto_repair
    /\ result' = ErrResult("RepairFailed", 0)
    /\ pc' = "done"
    /\ UNCHANGED <<json_str, auto_repair, max_repair_attempts, built, input, position,
                   stack, output, error, attempts, repaired, log, prev>>
    /\ UNCHANGED <<parser, calls, scan, host>>

\* a parse_value that repairs without consulting auto_repair
BeginRepairUnconditional ==
    /\ pc = "start"
    /\ ~StrictFirst(json_str).ok
    /\ LET st == NewState(Trim(json_str)) IN
        /\ input' = st.input /\ position' = st.position
        /\ stack' = st.stack /\ output' = st.output
    /\ built' = TRUE
    /\ error' = StrictErrorMessage(json_str)
    /\ attempts' = 0
    /\ pc' = "prelude"
    /\ UNCHANGED <<json_str, auto_repair, max_repair_attempts, result, repaired, log, prev>>
    /\ UNCHANGED <<parser, calls, scan, host>>

\* parse_value calls repair_json, which builds the ParseState of the trimmed text
BeginRepair ==
    /\ pc = "start"
    /\ ~StrictFirst(json_str).ok
    /\ auto_repair
    /\ LET st == NewState(Trim(json_str)) IN
        /\ input' = st.input /\ position' = st.position
        /\ stack' = st.stack /\ output' = st.output
    /\ built' = TRUE
    /\ error' = StrictErrorMessage(json_str)
    /\ attempts' = 0
    /\ pc' = "prelude"
    /\ UNCHANGED <<json_str, auto_repair, max_repair_attempts, result, repaired, log, prev>>
    /\ UNCHANGED <<parser, calls, scan, host>>

\* the ParseState becomes st2 after `name` ran; log and prev keep the calls made
\* and the state before the last of them ("none": no strategy was able)
Ran(name, st2) ==
    /\ input' = st2.input /\ position' = st2.position
    /\ stack' = st2.stack /\ output' = st2.output
    /\ prev' = IF name = "none" THEN prev ELSE St
    /\ log' = IF name = "none" THEN log ELSE Append(log, name)

\* the call of try_repair_strategies before the loop
Prelude ==
    /\ pc = "prelude"
    /\ Ran(SelectedStrategy(St, error), TryRepairStrategies(St, error))
    /\ pc' = "loop"
    /\ UNCHANGED <<json_str, auto_repair, max_repair_attempts, built, error, attempts,
                   result, repaired>>
    /\ UNCHANGED <<parser, calls, scan, host>>

\* a loop condition that forgets the attempt cap
InLoopUncapped == pc = "loop" /\ ~IsFinished(St)

\* the condition of the while loop of repair_json
InLoop == pc = "loop" /\ ~IsFinished(St) /\ attempts < max_repair_attempts

\* what an iteration of the loop leaves behind once handler h, the first
\* able one, has run: the handler's state, handled = true, attempts += 1
Handled(h) ==
    /\ Ran(h, Handle(h, St))
    /\ attempts' = attempts + 1
    /\ UNCHANGED <<json_str, auto_repair, max_repair_attempts, pc, built, error,
                   result, repaired>>
    /\ UNCHANGED <<parser, calls, scan, host>>

WhitespaceStep ==
    /\ InLoop /\ SelectedHandler(St) = "WhitespaceHandler"
    /\ Handled("WhitespaceHandler")

LiteralStep ==
    /\ InLoop /\ SelectedHandler(St) = "LiteralHandler"
    /\ Handled("LiteralHandler")

ColonStep ==
    /\ InLoop /\ SelectedHandler(St) = "ColonHandler"
    /\ Handled("ColonHandler")

CommaStep ==
    /\ InLoop /\ SelectedHandler(St) = "CommaHandler"
    /\ Handled("CommaHandler")

StringStep ==
    /\ InLoop /\ SelectedHandler(St) = "StringHandler"
    /\ Handled("StringHandler")

NumberStep ==
    /\ InLoop /\ SelectedHandler(St) = "NumberHandler"
    /\ Handled("NumberHandler")

ObjectStep ==
    /\ InLoop /\ SelectedHandler(St) = "ObjectHandler"
    /\ Handled("ObjectHandler")

ArrayStep ==
    /\ InLoop /\ SelectedHandler(St) = "ArrayHandler"
    /\ Handled("ArrayHandler")

NoQuotesKeyStep ==
    /\ InLoop /\ SelectedHandler(St) = "NoQuotesKeyHandler"
    /\ Handled("NoQuotesKeyHandler")

\* one iteration in which no handler is able and a strategy repairs
StrategyStep ==
    /\ InLoop
    /\ SelectedHandler(St) = "none"
    /\ SelectedStrategy(St, error) # "none"
    /\ Ran(SelectedStrategy(St, error), TryRepairStrategies(St, error))
    /\ attempts' = attempts + 1
    /\ UNCHANGED <<json_str, auto_repair, max_repair_attempts, pc, built, error,
                   result, repaired>>
    /\ UNCHANGED <<parser, calls, scan, host>>

\* an iteration in which nothing is able, reported as RepairFailed
UnhandledGivesUp ==
    /\ InLoop
    /\ SelectedHandler(St) = "none"
    /\ SelectedStrategy(St, error) = "none"
    /\ result' = ErrResult("RepairFailed", 0)
    /\ pc' = "done"
    /\ UNCHANGED <<json_str, auto_repair, max_repair_attempts, built, input, position,
                   stack, output, error, attempts, repaired, log, prev>>
    /\ UNCHANGED <<parser, calls, scan, host>>

\* one iteration in which nothing is able: ParseError
Unhandled ==
    /\ InLoop
    /\ SelectedHandler(St) = "none"
    /\ SelectedStrategy(St, error) = "none"
    /\ result' = ErrResult("ParseError", position)
    /\ pc' = "done"
    /\ UNCHANGED <<json_str, auto_repair, max_repair_attempts, built, input, position,
                   stack, output, error, attempts, repaired, log, prev>>
    /\ UNCHANGED <<parser, calls, scan, host>>

\* after the loop: with a frame open, try_repair_strategies once more
AfterLoop ==
    /\ pc = "loop"
    /\ ~InLoop
    /\ IF CurrentContext(St) # "Root"
       THEN Ran(SelectedStrategy(St, error), TryRepairStrategies(St, error))
       ELSE UNCHANGED <<input, position, stack, output, prev, log>>
    /\ pc' = "finish"
    /\ UNCHANGED <<json_str, auto_repair, max_repair_attempts, built, error, attempts,
                   result, repaired>>
    /\ UNCHANGED <<parser, calls, scan, host>>

\* repair_json gives up on the attempt count
TooManyAttempts ==
    /\ pc = "finish"
    /\ attempts >= max_repair_attempts
    /\ result' = ErrResult("RepairFailed", 0)
    /\ pc' = "done"
    /\ UNCHANGED <<json_str, auto_repair, max_repair_attempts, built, input, position,
                   stack, output, error, attempts, repaired, log, prev>>
    /\ UNCHANGED <<parser, calls, scan, host>>

\* repair_json returns Ok(output) and parse_value parses it strictly
ReturnRepaired ==
    /\ pc = "finish"
    /\ attempts < max_repair_attempts
    /\ repaired' = [ok |-> TRUE, text |-> output]
    /\ result' = IF StrictParse(output).ok THEN OkResult(StrictParse(output).val)
                 ELSE ErrResult("JsonError", 0)
    /\ pc' = "done"
    /\ UNCHANGED <<json_str, auto_repair, max_repair_attempts, built, input, position,
                   stack, output, error, attempts, log, prev>>
    /\ UNCHANGED <<parser, calls, scan, host>>

Next ==
    \/ ParseValueStrict
    \/ ParseValueDisabled
    \/ BeginRepair
    \/ Prelude
    \/ WhitespaceStep
    \/ LiteralStep
    \/ ColonStep
    \/ CommaStep
    \/ StringStep
    \/ NumberStep
    \/ ObjectStep
    \/ ArrayStep
    \/ NoQuotesKeyStep
    \/ StrategyStep
    \/ Unhandled
    \/ AfterLoop
    \/ TooManyAttempts
    \/ ReturnRepaired

Spec == Init /\ [][Next]_vars

-----------------------------------------------------------------------------
(* repair_json as a function: the ParseStates of a run, one after another *)

\* the states the loop of repair_json leaves, iteration after iteration
RECURSIVE LoopStates(_, _, _, _)
LoopStates(st, err, n, cap) ==
    IF IsFinished(st) \/ n >= cap THEN <<>>
    ELSE IF SelectedHandler(st) # "none" THEN
        LET s2 == Handle(SelectedHandler(st), st) IN
        <<s2>> \o LoopStates(s2, err, n + 1, cap)
    ELSE IF SelectedStrategy(st, err) # "none" THEN
        LET s2 == TryRepairStrategies(st, err) IN
        <<s2>> \o LoopStates(s2, err, n + 1, cap)
    ELSE <<>>

\* the new ParseState, the state after the prelude, the states of the loop
RepairJsonStates(text, err, cap) ==
    LET s0 == NewState(Trim(text))
        s1 == TryRepairStrategies(s0, err)
    IN  <<s0, s1>> \o LoopStates(s1, err, 0, cap)

-----------------------------------------------------------------------------
(* Calls of parse_value running at the same time on one parser.  parse_value *)
(* and repair_json take &self; the ParseState, the error and the attempt    *)
(* counter are locals of the call.                                          *)

Calls == {1, 2}

\* texts for the calls: strict, trailing comma, single quotes, truncated,
\* prefixed, fenced, unhandled, closed twice
SharedInputs ==
    {<<"{", DQ, "a", DQ, ":", "1", "}">>,
     <<"{", DQ, "a", DQ, ":", "1", ",", "}">>,
     <<"{", SQ, "a", SQ, ":", SQ, "x", SQ, "}">>,
     <<"[", "1", ",">>,
     <<"H", "i", SP, "{", DQ, "a", DQ, ":", "t", "r", "u", "e", "}">>,
     Fence \o <<"[", "1", "]">> \o Fence,
     <<"[", BS>>,
     <<"{", DQ, "k", "e">>}

\* the first handler of the list whose can_handle holds (394-395)
FirstAbleHandler(handlers, st) ==
    LET able == {i \in 1..Len(handlers) : CanHandle(handlers[i], st)} IN
    IF able = {} THEN "none" ELSE handlers[CHOOSE i \in able : \A j \in able : i <= j]

\* the first strategy of the list whose can_repair holds (494-495)
FirstAbleStrategy(strategies, st, err) ==
    LET able == {i \in 1..Len(strategies) : CanRepairOf(strategies[i], st, err)} IN
    IF able = {} THEN "none" ELSE strategies[CHOOSE i \in able : \A j \in able : i <= j]

\* try_repair_strategies on a list of strategies
TryRepairWith(strategies, st, err) ==
    IF FirstAbleStrategy(strategies, st, err) = "none" THEN st
    ELSE RepairOf(FirstAbleStrategy(strategies, st, err), st, err)

\* a call that has not started
NewCall(text) ==
    [json_str |-> text, pc |-> "start", state |-> NoState, error |-> "",
     attempts |-> 0, result |-> NoResult]

\* the variables of the single call of Spec, at rest
NoSingleCall ==
    /\ json_str = <<>> /\ pc = "done" /\ built = FALSE
    /\ input = <<>> /\ position = 0 /\ stack = <<>> /\ output = <<>>
    /\ error = "" /\ attempts = 0 /\ result = NoResult
    /\ repaired = [ok |-> FALSE, text |-> <<>>]
    /\ log = <<>> /\ prev = NoState
    /\ scan = NoScan
    /\ host = NoHost

SharedInit ==
    /\ \E o \in OptionChoices :
        /\ auto_repair = o[1] /\ max_repair_attempts = o[2]
        /\ parser = WithOptions([auto_repair |-> o[1], max_repair_attempts |-> o[2]])
    /\ calls \in [Calls -> {NewCall(t) : t \in SharedInputs}]
    /\ NoSingleCall

\* a call whose ParseState is the one of the first call
CallStateOfFirst(c) == calls[1].state

\* the ParseState a call works on: the local `state` of its repair_json
CallState(c) == calls[c].state

\* call c becomes k; nothing else changes
CallBecomes(c, k) ==
    /\ calls' = [calls EXCEPT ![c] = k]
    /\ UNCHANGED <<parser, json_str, auto_repair, max_repair_attempts, pc, built, input,
                   position, stack, output, error, attempts, result, repaired, log, prev,
                   scan, host>>

\* parse_value up to the call of repair_json, and ParseState::new
CallStart(c) ==
    /\ calls[c].pc = "start"
    /\ LET k == calls[c]
           strict == StrictParse(k.json_str)
       IN  CallBecomes(c,
            IF strict.ok THEN [k EXCEPT !.pc = "done", !.result = OkResult(strict.val)]
            ELSE IF ~parser.options.auto_repair
                 THEN [k EXCEPT !.pc = "done", !.result = ErrResult("RepairFailed", 0)]
            ELSE [k EXCEPT !.pc = "prelude", !.state = NewState(Trim(k.json_str)),
                           !.error = StrictErrorMessage(k.json_str)])

\* the call of try_repair_strategies before the loop
CallPrelude(c) ==
    /\ calls[c].pc = "prelude"
    /\ CallBecomes(c, [calls[c] EXCEPT
            !.pc = "loop",
            !.state = TryRepairWith(parser.repair_strategies, CallState(c), calls[c].error)])

\* one iteration of the loop
CallIterate(c) ==
    LET k == calls[c]
        st == CallState(c)
        h == FirstAbleHandler(parser.state_handlers, st)
        s == FirstAbleStrategy(parser.repair_strategies, st, k.error)
    IN  /\ k.pc = "loop"
        /\ ~IsFinished(st) /\ k.attempts < parser.options.max_repair_attempts
        /\ CallBecomes(c,
            IF h # "none"
            THEN [k EXCEPT !.state = Handle(h, st), !.attempts = @ + 1]
            ELSE IF s # "none"
            THEN [k EXCEPT !.state = Repair(s, st, k.error), !.attempts = @ + 1]
            ELSE [k EXCEPT !.pc = "done", !.result = ErrResult("ParseError", st.position)])

\* after the loop, to the return of parse_value
CallReturn(c) ==
    LET k == calls[c]
        st == CallState(c)
        s2 == IF CurrentContext(st) # "Root"
              THEN TryRepairWith(parser.repair_strategies, st, k.error) ELSE st
    IN  /\ k.pc = "loop"
        /\ ~(~IsFinished(st) /\ k.attempts < parser.options.max_repair_attempts)
        /\ CallBecomes(c, [k EXCEPT
            !.pc = "done",
            !.state = s2,
            !.result = IF k.attempts >= parser.options.max_repair_attempts
                       THEN ErrResult("RepairFailed", 0)
                       ELSE IF StrictParse(s2.output).ok
                            THEN OkResult(StrictParse(s2.output).val)
                            ELSE ErrResult("JsonError", 0)])

SharedNext ==
    \/ \E c \in Calls : CallStart(c)
    \/ \E c \in Calls : CallPrelude(c)
    \/ \E c \in Calls : CallIterate(c)
    \/ \E c \in Calls : CallReturn(c)

SharedSpec == SharedInit /\ [][SharedNext]_vars

-----------------------------------------------------------------------------
(* Registering strategies on a parser, then a call of try_repair_strategies *)

\* ParseStates try_repair_strategies is called on: stray text at Root, a comma
\* at Root, a used-up input in an array, a single quote in an object, a comma
\* before `]`, and a letter in an array
SampleStates ==
    {NewState(<<"H", "i", SP, "{", "}">>),
     NewState(<<",", "}">>),
     [input |-> <<"[", "1", ",">>, position |-> 3, stack |-> <<"Root", "Array">>,
      output |-> <<"[", "1", ",">>],
     [input |-> <<"{", SQ, "a", SQ>>, position |-> 1, stack |-> <<"Root", "Object">>,
      output |-> <<"{">>],
     [input |-> <<"[", "1", ",", "]">>, position |-> 2, stack |-> <<"Root", "Array">>,
      output |-> <<"[", "1">>],
     [input |-> <<"[", "x">>, position |-> 1, stack |-> <<"Root", "Array">>,
      output |-> <<"[">>]}

\* the loop of try_repair_strategies: the strategies in list order, the first
\* whose can_repair holds repairs and the loop returns
RECURSIVE TryRepairLoop(_, _, _)
TryRepairLoop(strategies, st, err) ==
    IF strategies = <<>> THEN [applied |-> "none", state |-> st]
    ELSE IF CanRepairOf(Head(strategies), st, err)
         THEN [applied |-> Head(strategies), state |-> RepairOf(Head(strategies), st, err)]
         ELSE TryRepairLoop(Tail(strategies), st, err)

RegisterInit ==
    /\ auto_repair = TRUE /\ max_repair_attempts = DefaultMaxRepairAttempts
    /\ parser = WithOptions([auto_repair |-> TRUE,
                             max_repair_attempts |-> DefaultMaxRepairAttempts])
    /\ calls = <<>>
    /\ NoSingleCall

\* register_strategy(&mut self, strategy), before the parser is used
RegisterStrategyCall ==
    /\ log = <<>>
    /\ \E name \in CustomStrategies :
        /\ \A i \in 1..Len(parser.repair_strategies) : parser.repair_strategies[i] # name
        /\ parser' = [parser EXCEPT !.repair_strategies = RegisterStrategy(@, name)]
    /\ UNCHANGED <<json_str, auto_repair, max_repair_attempts, pc, built, input, position,
                   stack, output, error, attempts, result, repaired, log, prev, calls,
                   scan, host>>

\* one call of try_repair_strategies on a ParseState
TryRepairCall ==
    /\ log = <<>>
    /\ \E s \in SampleStates :
        LET r == TryRepairLoop(parser.repair_strategies, s, "expected value") IN
        /\ input' = r.state.input /\ position' = r.state.position
        /\ stack' = r.state.stack /\ output' = r.state.output
        /\ prev' = s
        /\ log' = <<r.applied>>
    /\ built' = TRUE
    /\ error' = "expected value"
    /\ UNCHANGED <<json_str, auto_repair, max_repair_attempts, pc, attempts, result,
                   repaired, parser, calls, scan, host>>

RegisterNext ==
    \/ RegisterStrategyCall
    \/ TryRepairCall

RegisterSpec == RegisterInit /\ [][RegisterNext]_vars

-----------------------------------------------------------------------------
(* The aggressive pre-pass: aggressively_close_scopes *)

\* the texts handed to aggressively_close_scopes
CloseInputs == TokenStrings(MaxTokens)

\* ParserOptions with aggressive_truncation_repair set as given
WithAggressive(enable) ==
    WithOptions([auto_repair |-> TRUE, max_repair_attempts |-> DefaultMaxRepairAttempts,
                 aggressive_truncation_repair |-> enable])

\* the locals at the head of the loop: scope_stack = vec![(Root, 0)]
ScanStart == [NoScan EXCEPT !.scope_stack = <<<<"Root", 0>>>>]

\* scope_stack.pop() when the last scope is of the given kind
PopScope(scope_stack, kind) ==
    IF scope_stack # <<>> /\ scope_stack[Len(scope_stack)][1] = kind
    THEN SubSeq(scope_stack, 1, Len(scope_stack) - 1)
    ELSE scope_stack

\* one iteration of the while loop (218-277): every arm pushes ch to output
\* and advances by one; the arms differ in what they do to the locals
ScanChar(st, sc) ==
    LET ch == CurrentChar(st) IN
    [state |-> Advance(Emit(st, <<ch>>), 1),
     locals |->
        IF sc.escape_next THEN [sc EXCEPT !.escape_next = FALSE]
        ELSE IF ch = BS /\ sc.in_string THEN [sc EXCEPT !.escape_next = TRUE]
        ELSE IF ch \in {DQ, SQ} /\ ~sc.in_string
            THEN [sc EXCEPT !.in_string = TRUE, !.string_quote_char = ch]
        ELSE IF sc.in_string /\ ch = sc.string_quote_char
            THEN [sc EXCEPT !.in_string = FALSE]
        ELSE IF ch = "{" /\ ~sc.in_string
            THEN [sc EXCEPT !.scope_stack = Append(@, <<"Object", st.position>>)]
        ELSE IF ch = "[" /\ ~sc.in_string
            THEN [sc EXCEPT !.scope_stack = Append(@, <<"Array", st.position>>)]
        ELSE IF ch = "}" /\ ~sc.in_string
            THEN [sc EXCEPT !.scope_stack = PopScope(@, "Object")]
        ELSE IF ch = "]" /\ ~sc.in_string
            THEN [sc EXCEPT !.scope_stack = PopScope(@, "Array")]
        ELSE sc]

\* the closers of the loop of close_remaining_scopes (305-319): scopes are
\* popped from the top, Root ends the loop
RECURSIVE ScopeClosers(_)
ScopeClosers(scope_stack) ==
    IF scope_stack = <<>> THEN <<>>
    ELSE LET context == scope_stack[Len(scope_stack)][1]
             below == SubSeq(scope_stack, 1, Len(scope_stack) - 1)
         IN  IF context = "Object" THEN <<"}">> \o ScopeClosers(below)
             ELSE IF context = "Array" THEN <<"]">> \o ScopeClosers(below)
             ELSE IF context = "Root" THEN <<>>
             ELSE ScopeClosers(below)

\* a close that removes the trailing comma before it closes the open string
CloseRemainingScopesCommaFirst(st, in_string, string_quote_char, scope_stack) ==
    LET kept == IF EndsWithChar(TrimEnd(st.output), ",")
                THEN SubSeq(TrimEnd(st.output), 1, Len(TrimEnd(st.output)) - 1)
                ELSE st.output
        closed == IF in_string THEN kept \o <<string_quote_char>> ELSE kept
    IN  [st EXCEPT !.output = closed \o ScopeClosers(scope_stack)]

\* close_remaining_scopes: the open string is closed with its own quote, a
\* trailing comma is removed, the closers are appended
CloseRemainingScopes(st, in_string, string_quote_char, scope_stack) ==
    LET closed == IF in_string THEN st.output \o <<string_quote_char>> ELSE st.output
        trimmed_output == TrimEnd(closed)
        kept == IF EndsWithChar(trimmed_output, ",")
                THEN SubSeq(trimmed_output, 1, Len(trimmed_output) - 1)
                ELSE closed
    IN  [st EXCEPT !.output = kept \o ScopeClosers(scope_stack)]

\* the scan of a whole text from the given locals
RECURSIVE ScanAll(_, _)
ScanAll(st, sc) ==
    IF IsFinished(st) THEN [state |-> st, locals |-> sc]
    ELSE LET r == ScanChar(st, sc) IN ScanAll(r.state, r.locals)

AggressiveInit ==
    /\ json_str \in CloseInputs
    /\ auto_repair = TRUE /\ max_repair_attempts = DefaultMaxRepairAttempts
    /\ \E enable \in BOOLEAN : parser = WithAggressive(enable)
    /\ pc = "start" /\ built = FALSE
    /\ input = <<>> /\ position = 0 /\ stack = <<>> /\ output = <<>>
    /\ error = "" /\ attempts = 0 /\ result = NoResult
    /\ repaired = [ok |-> FALSE, text |-> <<>>]
    /\ log = <<>> /\ prev = NoState
    /\ calls = <<>>
    /\ scan = NoScan
    /\ host = NoHost

\* the early return of 207-209
AggressiveDisabled ==
    /\ pc = "start"
    /\ ~parser.options.aggressive_truncation_repair
    /\ repaired' = [ok |-> TRUE, text |-> json_str]
    /\ pc' = "done"
    /\ UNCHANGED <<json_str, auto_repair, max_repair_attempts, built, input, position,
                   stack, output, error, attempts, result, log, prev, parser, calls,
                   scan, host>>

\* ParseState::new(json_str.trim()) and the declarations of the locals
AggressiveBegin ==
    /\ pc = "start"
    /\ parser.options.aggressive_truncation_repair
    /\ LET st == NewState(Trim(json_str)) IN
        /\ input' = st.input /\ position' = st.position
        /\ stack' = st.stack /\ output' = st.output
    /\ built' = TRUE
    /\ scan' = ScanStart
    /\ pc' = "scan"
    /\ UNCHANGED <<json_str, auto_repair, max_repair_attempts, error, attempts, result,
                   repaired, log, prev, parser, calls, host>>

\* one iteration of the while loop
AggressiveScan ==
    /\ pc = "scan"
    /\ ~IsFinished(St)
    /\ LET r == ScanChar(St, scan) IN
        /\ input' = r.state.input /\ position' = r.state.position
        /\ stack' = r.state.stack /\ output' = r.state.output
        /\ scan' = r.locals
    /\ UNCHANGED <<json_str, auto_repair, max_repair_attempts, pc, built, error, attempts,
                   result, repaired, log, prev, parser, calls, host>>

\* the loop has ended: close_remaining_scopes, then Ok(state.output)
AggressiveClose ==
    /\ pc = "scan"
    /\ IsFinished(St)
    /\ LET st == CloseRemainingScopes(St, scan.in_string, scan.string_quote_char,
                                      scan.scope_stack) IN
        /\ output' = st.output
        /\ repaired' = [ok |-> TRUE, text |-> st.output]
    /\ pc' = "done"
    /\ UNCHANGED <<json_str, auto_repair, max_repair_attempts, built, input, position,
                   stack, error, attempts, result, log, prev, parser, calls, scan, host>>

AggressiveNext ==
    \/ AggressiveDisabled
    \/ AggressiveBegin
    \/ AggressiveScan
    \/ AggressiveClose

AggressiveSpec == AggressiveInit /\ [][AggressiveNext]_vars

-----------------------------------------------------------------------------
(* Claims *)

Last(s) == s[Len(s)]
Range(s) == {s[i] : i \in 1..Len(s)}
DefaultOptions == auto_repair /\ max_repair_attempts = DefaultMaxRepairAttempts
Done == pc = "done"

\* C1: for a text the strict parser accepts, parse_value returns exactly the
\* strict parser's value, and builds no ParseState and invokes no handler or
\* strategy
C1_StrictInputReturnsStrictValue ==
    (Done /\ StrictAccepts(json_str)) =>
        /\ result = OkResult(StrictParse(json_str).val)
        /\ ~built
        /\ log = <<>>

\* a strict object with members has been parsed and returned
C1_Witness ==
    /\ Done /\ StrictAccepts(json_str)
    /\ result.kind = "Ok" /\ result.value.t = "obj" /\ Cardinality(result.value.o) = 2

\* C2 (as claimed): whatever repair_json returns is accepted by the strict parser
C2_RepairedOutputIsStrict == repaired.ok => StrictAccepts(repaired.text)

\* an upper bound on the steps parse_value still has to take
StepsLeft ==
    CASE pc = "start" -> max_repair_attempts + 4
      [] pc = "prelude" -> max_repair_attempts + 3
      [] pc = "loop" -> (max_repair_attempts - attempts) + 2
      [] pc = "finish" -> 1
      [] OTHER -> 0

\* the guards of the steps of parse_value: some branch of the code applies
CanStep ==
    \/ pc = "start" /\ StrictFirst(json_str).ok
    \/ pc = "start" /\ ~StrictFirst(json_str).ok /\ (auto_repair \/ ~auto_repair)
    \/ pc = "prelude"
    \/ InLoop /\ SelectedHandler(St) \in Range(HandlerOrder)
    \/ InLoop /\ SelectedHandler(St) = "none"
              /\ SelectedStrategy(St, error) \in Range(StrategyOrder) \cup {"none"}
    \/ pc = "loop" /\ ~InLoop
    \/ pc = "finish" /\ (attempts >= max_repair_attempts \/ attempts < max_repair_attempts)

\* C3: parse_value returns on every input, for every cap: the loop of
\* repair_json never makes more than max_repair_attempts iterations, every
\* step (a handler or strategy run to the end of its inner loops) lowers a
\* natural-number bound on the steps left, and no call is stuck before it returns
C3_Terminates ==
    /\ [](attempts <= max_repair_attempts /\ StepsLeft \in Nat)
    /\ [](~Done => CanStep)
    /\ [][StepsLeft' < StepsLeft]_vars

\* a repair that used every iteration the cap allows, and returned
C3_Witness ==
    /\ Done /\ built /\ attempts = max_repair_attempts
    /\ result.kind = "RepairFailed" /\ ~IsFinished(St)

\* C4: with auto_repair off, a text the strict parser rejects gives
\* RepairFailed, with no ParseState built and no handler or strategy invoked
C4_DisabledFailsFast ==
    (Done /\ ~auto_repair /\ ~StrictAccepts(json_str)) =>
        /\ result.kind = "RepairFailed"
        /\ ~built
        /\ log = <<>>

\* a repairable text (a trailing comma) was refused with auto_repair off
C4_Witness ==
    /\ Done /\ ~auto_repair /\ ~StrictAccepts(json_str)
    /\ json_str \in TrailingCommas
    /\ result.kind = "RepairFailed"

\* the index of the first `{` or `[` of a text, 0 when it has none
FirstBracket(t) ==
    IF \E i \in 1..Len(t) : t[i] \in {"{", "["}
    THEN CHOOSE i \in 1..Len(t) :
            /\ t[i] \in {"{", "["}
            /\ \A j \in 1..(i - 1) : t[j] \notin {"{", "["}
    ELSE 0

\* a text P ++ D: D a strict JSON object, P non-empty without `{` and `[`
IsPrefixedObject(t) ==
    LET i == FirstBracket(t) IN
    i > 1 /\ t[i] = "{" /\ StrictAccepts(From(t, i))

\* C5 (as claimed): leading text without `{` and `[` in front of a strict
\* JSON object contributes nothing, and parse_value returns the object's value
C5_PrefixIgnored ==
    (DefaultOptions /\ IsPrefixedObject(json_str)) =>
        /\ (built /\ position < FirstBracket(input)) => output = <<>>
        /\ Done => result = OkResult(StrictParse(From(json_str, FirstBracket(json_str))).val)

\* the top-level document is completely written and the stack is back at Root
DocumentComplete ==
    /\ built /\ pc \in {"loop", "finish"}
    /\ stack = <<"Root">>
    /\ output # <<>> /\ output[1] \in {"{", "["}
    /\ StrictAccepts(output)

\* C6 (as claimed): once the document is complete at Root, nothing of what
\* follows in the input is appended to output
C6_NothingAfterDocument == [][DocumentComplete => output' = output]_vars

\* the length of the fence a text starts with
FenceLen(t) == IF StartsWith(t, FenceJson) THEN 7 ELSE 3

\* what an opening fence and an optional closing fence enclose
FencedBody(t) ==
    LET b == From(t, FenceLen(t) + 1) IN
    IF Len(b) >= 3 /\ SubSeq(b, Len(b) - 2, Len(b)) = Fence
    THEN SubSeq(b, 1, Len(b) - 3) ELSE b

\* an opening fence immediately followed by a strict JSON object, with or
\* without a closing fence
IsFenced(t) ==
    /\ StartsWith(t, Fence)
    /\ LET d == FencedBody(t) IN
       d # <<>> /\ d[1] = "{" /\ d[Len(d)] = "}" /\ StrictAccepts(d)

\* C7: on a fenced strict object, every run of CodeBlockMarkersStrategy
\* consumes exactly the fence (3 or 7 characters), emits nothing and leaves the
\* stack unchanged, and parse_value returns the value of the object
C7_FencedDocument ==
    (DefaultOptions /\ IsFenced(json_str)) =>
        /\ (log # <<>> /\ Last(log) = "CodeBlockMarkersStrategy") =>
              /\ StartsWith(Remaining(prev), Fence)
              /\ position = prev.position + FenceLen(Remaining(prev))
              /\ output = prev.output
              /\ stack = prev.stack
        /\ Done => result = OkResult(StrictParse(FencedBody(json_str)).val)

\* a ```json fence and a closing fence were both consumed around an object
C7_Witness ==
    /\ Done /\ DefaultOptions /\ IsFenced(json_str)
    /\ StartsWith(json_str, FenceJson)
    /\ Len(log) > 2
    /\ Head(log) = "CodeBlockMarkersStrategy" /\ Last(log) = "CodeBlockMarkersStrategy"
    /\ result.kind = "Ok"

\* C9 (as claimed): a `,` whose next character is `}` or `]` is skipped, so
\* no `,` is written to output in front of that closing bracket
C9_CommaBeforeCloserSkipped ==
    (/\ log # <<>> /\ Last(log) = "CommaHandler"
     /\ PeekChars(prev, 2) \in {<<",", "}">>, <<",", "]">>}) =>
        ~EndsWithChar(output, ",")

\* the character CommaHandler finds behind the comma and the run of
\* whitespace and backslash-n digraphs that follows it
AfterComma(st) == SkipWhitespaceRun(Advance(st, 1))

AllButLast(s) == SubSeq(s, 1, Len(s) - 1)

\* C8 (as claimed): on a `,` followed, after whitespace and digraphs, by `}`
\* CommaHandler emits `}` alone, consumes through it and pops one context; in
\* every other case it emits one `,` and leaves the stack unchanged
C8_CommaHandlerPopsOne ==
    (log # <<>> /\ Last(log) = "CommaHandler") =>
        IF CurrentChar(AfterComma(prev)) = "}"
        THEN /\ output = prev.output \o <<"}">>
             /\ position = AfterComma(prev).position + 1
             /\ prev.stack = stack \o <<Last(prev.stack)>>
        ELSE /\ output = prev.output \o <<",">>
             /\ stack = prev.stack

\* C8 (amended): as claimed, except that the stack is left unchanged when it
\* holds Root alone
C8_CommaHandlerPopsUnlessRoot ==
    (log # <<>> /\ Last(log) = "CommaHandler") =>
        IF CurrentChar(AfterComma(prev)) = "}"
        THEN /\ output = prev.output \o <<"}">>
             /\ position = AfterComma(prev).position + 1
             /\ stack = IF Len(prev.stack) > 1 THEN AllButLast(prev.stack) ELSE prev.stack
        ELSE /\ output = prev.output \o <<",">>
             /\ stack = prev.stack

\* CommaHandler met `}` behind a comma and a gap with a digraph, inside an object
C8_Witness ==
    /\ log # <<>> /\ Last(log) = "CommaHandler"
    /\ CurrentChar(AfterComma(prev)) = "}"
    /\ AfterComma(prev).position > prev.position + 2
    /\ Len(prev.stack) > 1 /\ stack = AllButLast(prev.stack)

\* the double-quoted form of a text whose strings hold no quote and no
\* backslash; a text with another string in it gets a character no JSON has
RECURSIVE ToDoubleQuoted(_)
ToDoubleQuoted(t) ==
    IF t = <<>> THEN <<>>
    ELSE IF Head(t) \notin {DQ, SQ} THEN <<Head(t)>> \o ToDoubleQuoted(Tail(t))
    ELSE LET j == IndexFrom(t, 2, Head(t)) IN
         IF j > Len(t) \/ \E i \in 2..(j - 1) : t[i] \in {DQ, SQ, BS}
         THEN <<"?">>
         ELSE <<DQ>> \o SubSeq(t, 2, j - 1) \o <<DQ>>
                \o ToDoubleQuoted(SubSeq(t, j + 1, Len(t)))

\* an object with single-quoted keys or string values
IsSingleQuotedObject(t) ==
    /\ t # <<>> /\ t[1] = "{"
    /\ \E i \in 1..Len(t) : t[i] = SQ
    /\ StrictAccepts(ToDoubleQuoted(t))

\* a stack with the frames of single-quoted strings renamed
AsDoubleQuoted(stk) ==
    [i \in 1..Len(stk) |->
        IF stk[i] = "SingleQuoteProperty" THEN "DoubleQuoteProperty"
        ELSE IF stk[i] = "SingleQuoteValue" THEN "DoubleQuoteValue" ELSE stk[i]]

\* the ParseStates repair_json goes through on the double-quoted form
DoubleQuotedRun == RepairJsonStates(ToDoubleQuoted(json_str), error, max_repair_attempts)

\* C10 (as claimed): on a single-quoted object the output is the object with
\* `"` around every string, and the stack is, step after step, the stack of
\* the double-quoted form, ending at Root
C10_SameStackAsDoubleQuoted ==
    (DefaultOptions /\ built /\ IsSingleQuotedObject(json_str)) =>
        /\ Len(log) < Len(DoubleQuotedRun)
        /\ output = DoubleQuotedRun[Len(log) + 1].output
        /\ stack = DoubleQuotedRun[Len(log) + 1].stack
        /\ Done => /\ stack = <<"Root">>
                   /\ result = OkResult(StrictParse(ToDoubleQuoted(json_str)).val)

\* C10 (amended): as claimed, except that the frame of a single-quoted key is
\* SingleQuoteProperty where the double-quoted form has DoubleQuoteProperty
C10_SameStackUpToQuoteStyle ==
    (DefaultOptions /\ built /\ IsSingleQuotedObject(json_str)) =>
        /\ Len(log) < Len(DoubleQuotedRun)
        /\ output = DoubleQuotedRun[Len(log) + 1].output
        /\ AsDoubleQuoted(stack) = DoubleQuotedRun[Len(log) + 1].stack
        /\ Done => /\ stack = <<"Root">>
                   /\ result = OkResult(StrictParse(ToDoubleQuoted(json_str)).val)

\* an object with a single-quoted key and a single-quoted value was returned
C10_Witness ==
    /\ Done /\ DefaultOptions /\ IsSingleQuotedObject(json_str)
    /\ \E i \in 1..(Len(json_str) - 1) : json_str[i] = ":" /\ json_str[i + 1] = SQ
    /\ \E i \in 1..(Len(json_str) - 1) : json_str[i] = SQ /\ json_str[i + 1] = ":"
    /\ result.kind = "Ok" /\ result.value.t = "obj" /\ result.value.o # {}

\* C11 (as claimed): whichever of StringHandler and SingleQuotesStrategy
\* transcodes a single-quoted string, every `"` it writes between the two
\* delimiters follows a backslash
C11_EmbeddedQuoteEscaped ==
    (/\ log # <<>> /\ Last(log) \in {"StringHandler", "SingleQuotesStrategy"}
     /\ CurrentChar(prev) = SQ /\ ~IsKeyOrValue(prev)) =>
        \A i \in (Len(prev.output) + 2)..(Len(output) - 1) :
            output[i] = DQ => output[i - 1] = BS

\* the loop ended with the input used up and the stack not back at Root, and
\* a strategy ran after it: prev is the state the strategy found (a handler
\* never runs on a finished state, and the prelude runs at Root)
AtCloseOut ==
    /\ built /\ pc \in {"finish", "done"}
    /\ prev.input = input
    /\ IsFinished(prev) /\ CurrentContext(prev) # "Root"

\* the output before close-out without the one `,` it may end with, and what
\* close-out wrote behind it
Kept == IF EndsWithChar(prev.output, ",") THEN AllButLast(prev.output) ELSE prev.output
Appended == SubSeq(output, Len(Kept) + 1, Len(output))
KeptIntact == Len(output) >= Len(Kept) /\ SubSeq(output, 1, Len(Kept)) = Kept

\* one `}` for an Object frame and one `]` for an Array frame, from the top of
\* the stack down
RECURSIVE ClosersTopDown(_)
ClosersTopDown(stk) ==
    IF stk = <<>> THEN <<>>
    ELSE (IF Last(stk) = "Object" THEN <<"}">>
          ELSE IF Last(stk) = "Array" THEN <<"]">> ELSE <<>>)
         \o ClosersTopDown(AllButLast(stk))

IsCloser(c) == c \in {"}", "]"}
CountIn(s, x) == Cardinality({i \in 1..Len(s) : s[i] = x})

\* C12 (as claimed): when the input ends inside a double-quoted string value,
\* close-out keeps the content read so far, ends the string with exactly one
\* `"` and closes the enclosing scopes
C12_TruncatedStringClosedOnce ==
    (AtCloseOut /\ CurrentContext(prev) = "DoubleQuoteValue") =>
        output = prev.output \o <<DQ>> \o ClosersTopDown(AllButLast(prev.stack))

\* C13: when the input is used up with the top of the stack not Root,
\* close-out runs exactly once and writes one `}` per Object frame and one `]`
\* per Array frame, from the top of the stack down, and no other bracket
C13_CloseOutClosesEveryFrame ==
    AtCloseOut =>
        /\ Last(log) = "TruncationRepairStrategy"
        /\ CountIn(log, "TruncationRepairStrategy") = 1
        /\ KeptIntact
        /\ SelectSeq(Appended, IsCloser) = ClosersTopDown(prev.stack)
        /\ stack = prev.stack

\* an array inside an object inside an object was closed, and the value returned
C13_Witness ==
    /\ AtCloseOut /\ Done /\ result.kind = "Ok"
    /\ prev.stack = <<"Root", "Object", "Object", "Array">>
    /\ Appended = <<"]", "}", "}">>

\* reading a text as JSON: is its end inside a string whose closing `"` is
\* missing (a `"` behind a backslash does not close)
RECURSIVE OpenStringScan(_, _, _)
OpenStringScan(t, inside, escaped) ==
    IF t = <<>> THEN inside
    ELSE IF escaped THEN OpenStringScan(Tail(t), inside, FALSE)
    ELSE IF inside /\ Head(t) = "\\" THEN OpenStringScan(Tail(t), inside, TRUE)
    ELSE IF Head(t) = DQ THEN OpenStringScan(Tail(t), ~inside, FALSE)
    ELSE OpenStringScan(Tail(t), inside, FALSE)

EndsInsideString(t) == OpenStringScan(t, FALSE, FALSE)

\* a key between its two quotes, with no colon behind it
FullyQuotedKey ==
    /\ IsKey(CurrentContext(prev))
    /\ EndsWithChar(prev.output, DQ) /\ ~EndsInsideString(prev.output)

\* C14: when the input ends with a key awaiting its value (the key has both
\* its quotes in output), TruncationRepair is the strategy that closes it: a
\* Colon frame gets `0`, a fully quoted key without a colon gets `:0`, and no
\* null is written
C14_KeyAwaitingValueGetsZero ==
    (/\ AtCloseOut /\ (CurrentContext(prev) = "Colon" \/ FullyQuotedKey)
     /\ ~EndsInsideString(prev.output)) =>
        /\ Last(log) = "TruncationRepairStrategy"
        /\ KeptIntact
        /\ CurrentContext(prev) = "Colon" => StartsWith(Appended, <<"0">>)
        /\ FullyQuotedKey => StartsWith(Appended, <<":", "0">>)
        /\ CountIn(Appended, "n") = 0

\* a key without a colon got `:0` after a complete member, and the object was returned
C14_Witness ==
    /\ AtCloseOut /\ Done /\ FullyQuotedKey
    /\ Appended = <<":", "0", "}">>
    /\ result.kind = "Ok" /\ Cardinality(result.value.o) = 2

\* C15 (as claimed): when the input is cut between the quotes of a key,
\* close-out ends the key with one `"` and writes `:0`
C15_TruncatedKeyClosedOnce ==
    (/\ AtCloseOut /\ IsKey(CurrentContext(prev))
     /\ ~EndsWithChar(prev.output, DQ) /\ CountChar(prev.output, DQ) % 2 = 1) =>
        output = prev.output \o <<DQ, ":", "0">> \o ClosersTopDown(AllButLast(prev.stack))

\* a text cut right behind a `,` of its top-level array or object
IsCutAfterComma(t) ==
    /\ Len(t) > 1 /\ Last(t) = "," /\ t[1] \in {"{", "["}
    /\ StrictAccepts(AllButLast(t) \o (IF t[1] = "{" THEN <<"}">> ELSE <<"]">>))

\* a stack of Object and Array frames above Root
RECURSIVE OnlyScopes(_)
OnlyScopes(stk) ==
    \/ stk = <<"Root">>
    \/ /\ Len(stk) > 1 /\ Last(stk) \in {"Object", "Array"}
       /\ OnlyScopes(AllButLast(stk))

\* C16: when the input is cut right behind a `,` between elements or members,
\* close-out drops that `,` and writes the closers in its place, so what is
\* returned holds the elements read so far and no other
C16_TrailingCommaDropped ==
    /\ (/\ AtCloseOut /\ EndsWithChar(prev.output, ",")
        /\ CurrentContext(prev) \in {"Object", "Array"}) =>
            /\ output = AllButLast(prev.output) \o Appended
            /\ CountIn(Appended, ",") = 0
            /\ (OnlyScopes(prev.stack) /\ ~EndsInsideString(prev.output)) =>
                    Appended = ClosersTopDown(prev.stack)
    /\ (Done /\ DefaultOptions /\ IsCutAfterComma(json_str)) =>
            LET whole == AllButLast(json_str)
                            \o (IF json_str[1] = "{" THEN <<"}">> ELSE <<"]">>)
            IN  result = OkResult(StrictParse(whole).val)

\* an array element was read, the `,` behind it dropped and the array returned
C16_Witness ==
    /\ AtCloseOut /\ Done /\ DefaultOptions /\ IsCutAfterComma(json_str)
    /\ EndsWithChar(prev.output, ",") /\ CurrentContext(prev) = "Array"
    /\ result.kind = "Ok" /\ Len(result.value.e) >= 1

\* the longest prefix of a text made of ASCII letters, digits and `_`
RECURSIVE IdentifierPrefix(_)
IdentifierPrefix(t) ==
    IF t # <<>> /\ (IsAlphabetic(Head(t)) \/ IsAsciiDigit(Head(t)) \/ Head(t) = "_")
    THEN <<Head(t)>> \o IdentifierPrefix(Tail(t))
    ELSE <<>>

\* C17 (as claimed): with the top of the stack Object and the cursor on an
\* ASCII letter or `_`, the identifier is consumed by NoQuotesKeyHandler and
\* written between two `"`, and DoubleQuoteProperty is pushed
C17_UnquotedKeyQuoted ==
    /\ (/\ InLoop /\ CurrentContext(St) = "Object"
        /\ (IsAlphabetic(CurrentChar(St)) \/ CurrentChar(St) = "_")) =>
            SelectedHandler(St) = "NoQuotesKeyHandler"
    /\ (log # <<>> /\ Last(log) = "NoQuotesKeyHandler") =>
            LET id == IdentifierPrefix(Remaining(prev)) IN
            /\ output = prev.output \o <<DQ>> \o id \o <<DQ>>
            /\ position = prev.position + Len(id)
            /\ stack = prev.stack \o <<"DoubleQuoteProperty">>

\* C18 (as claimed): with allow_unquoted_keys off, NoQuotesKeyHandler never
\* runs, so no identifier in key position is rewritten into a quoted key
C18_UnquotedKeyHandlerInactive ==
    ~allow_unquoted_keys => CountIn(log, "NoQuotesKeyHandler") = 0

\* the literal a text starts with, <<>> when it starts with none
LiteralAt(t) ==
    IF StartsWith(t, LitTrue) THEN LitTrue
    ELSE IF StartsWith(t, LitFalse) THEN LitFalse
    ELSE IF StartsWith(t, LitNull) THEN LitNull
    ELSE IF StartsWith(t, LitUndefined) THEN LitUndefined
    ELSE <<>>

LiteralContexts == {"Array", "Colon", "DoubleQuoteProperty", "SingleQuoteProperty"}

\* C19: with the top context Array, Colon or a key context and the cursor on
\* true, false, null or undefined, LiteralHandler runs; it writes true, false,
\* null or null, advances by the length of the source token, and pops one
\* context unless the top is Array, where the stack is unchanged
C19_LiteralHandler ==
    /\ (/\ InLoop /\ CurrentContext(St) \in LiteralContexts
        /\ LiteralAt(Remaining(St)) # <<>>) =>
            SelectedHandler(St) = "LiteralHandler"
    /\ (log # <<>> /\ Last(log) = "LiteralHandler") =>
            LET tok == LiteralAt(Remaining(prev)) IN
            /\ CurrentContext(prev) \in LiteralContexts
            /\ tok # <<>>
            /\ output = prev.output \o (IF tok = LitUndefined THEN LitNull ELSE tok)
            /\ position = prev.position + Len(tok)
            /\ stack = IF CurrentContext(prev) = "Array" THEN prev.stack
                       ELSE AllButLast(prev.stack)

\* undefined was read behind a colon and written as null
C19_Witness ==
    /\ log # <<>> /\ Last(log) = "LiteralHandler"
    /\ CurrentContext(prev) = "Colon"
    /\ LiteralAt(Remaining(prev)) = LitUndefined
    /\ position = prev.position + 9
    /\ stack = AllButLast(prev.stack)

\* a text made of whitespace characters and backslash-n digraphs only
RECURSIVE IsGap(_)
IsGap(t) ==
    IF t = <<>> THEN TRUE
    ELSE IF StartsWith(t, BSN) THEN IsGap(SubSeq(t, 3, Len(t)))
    ELSE IsWhitespace(Head(t)) /\ IsGap(Tail(t))

\* what the last handler or strategy consumed, and what it wrote
Consumed == SubSeq(input, prev.position + 1, position)
Emitted == SubSeq(output, Len(prev.output) + 1, Len(output))

\* C20: a run of whitespace and backslash-n digraphs at the cursor goes to
\* WhitespaceHandler, which consumes the whole run and leaves output and stack
\* as they were; StringHandler copies the same characters of a string to output
C20_WhitespaceDiscardedOutsideStrings ==
    /\ (InLoop /\ AtWhitespace(St)) => SelectedHandler(St) = "WhitespaceHandler"
    /\ (log # <<>> /\ Last(log) = "WhitespaceHandler") =>
            /\ Consumed # <<>> /\ IsGap(Consumed)
            /\ ~AtWhitespace(St)
            /\ output = prev.output
            /\ stack = prev.stack
    /\ (log # <<>> /\ Last(log) = "StringHandler") =>
            \A c \in {SP, NL, BS} : CountIn(Emitted, c) = CountIn(Consumed, c)

\* a run holding a digraph was discarded after a string with a blank was copied
C20_Witness ==
    /\ log # <<>> /\ Last(log) = "WhitespaceHandler"
    /\ CountIn(Consumed, BS) > 0 /\ Len(Consumed) > 2
    /\ CountIn(output, SP) > 0
    /\ output = prev.output

\* the state of a loop iteration in which no handler is able and no strategy
\* is able: handled stays false (446-455)
NothingApplies ==
    /\ built /\ ~IsFinished(St) /\ attempts < max_repair_attempts
    /\ SelectedHandler(St) = "none" /\ SelectedStrategy(St, error) = "none"

Outcomes == {"Ok", "ParseError", "RepairFailed", "JsonError"}

\* C21: every call of parse_value ends in a value, ParseError (with the
\* cursor position, exactly when an iteration found no handler and no
\* strategy), RepairFailed (auto-repair off, or the cap reached) or JsonError
\* (the strict parser rejects the repaired output); the unwrap of
\* StringHandler::handle always finds a character
C21_FourOutcomes ==
    /\ [](Done =>
            /\ result.kind \in Outcomes
            /\ result.kind = "ParseError" <=> NothingApplies
            /\ result.kind = "ParseError" => result.pos = position
            /\ result.kind = "RepairFailed" <=>
                    \/ ~built /\ ~auto_repair /\ ~StrictAccepts(json_str)
                    \/ built /\ ~NothingApplies /\ attempts >= max_repair_attempts
            /\ result.kind = "JsonError" <=>
                    /\ built /\ ~NothingApplies /\ attempts < max_repair_attempts
                    /\ ~StrictAccepts(output)
            /\ result.kind = "Ok" <=>
                    \/ StrictAccepts(json_str)
                    \/ /\ built /\ ~NothingApplies /\ attempts < max_repair_attempts
                       /\ StrictAccepts(output))
    /\ []((pc = "loop" /\ SelectedHandler(St) = "StringHandler" /\ InLoop)
            => CurrentChar(St) \in {DQ, SQ})
    /\ [][(pc = "loop" /\ NothingApplies) => result'.kind = "ParseError"]_vars

\* an iteration found nothing able in an array, and ParseError carries the cursor
C21_Witness ==
    /\ Done /\ NothingApplies /\ result.kind = "ParseError" /\ result.pos > 0
    /\ CurrentContext(St) = "Array"

\* parse_value as a function of the text and the options: what a call that
\* runs alone returns
ParseValueAlone(text, options) ==
    IF StrictParse(text).ok THEN OkResult(StrictParse(text).val)
    ELSE IF ~options.auto_repair THEN ErrResult("RepairFailed", 0)
    ELSE LET err == StrictErrorMessage(text)
             states == RepairJsonStates(text, err, options.max_repair_attempts)
             n == Len(states) - 2
             st == Last(states)
             s2 == IF CurrentContext(st) # "Root" THEN TryRepairStrategies(st, err) ELSE st
         IN  IF ~IsFinished(st) /\ n < options.max_repair_attempts
             THEN ErrResult("ParseError", st.position)
             ELSE IF n >= options.max_repair_attempts THEN ErrResult("RepairFailed", 0)
             ELSE IF StrictParse(s2.output).ok THEN OkResult(StrictParse(s2.output).val)
             ELSE ErrResult("JsonError", 0)

\* C22: calls of parse_value interleaved on one parser do not interfere: no
\* step changes the parser's handlers, strategies or options, a step of one
\* call leaves the other call as it is, and each call returns what it returns
\* when it runs alone
C22_SharedParserCallsIndependent ==
    /\ [](\A c \in Calls : calls[c].pc = "done" =>
            calls[c].result = ParseValueAlone(calls[c].json_str, parser.options))
    /\ [][parser' = parser]_vars
    /\ [][\E c \in Calls : \A d \in Calls \ {c} : calls'[d] = calls[d]]_vars

\* a call returned a repaired value while the other call, on a different
\* text, was in the middle of its loop
C22_Witness ==
    /\ calls # <<>>
    /\ calls[1].pc = "done" /\ calls[1].result.kind = "Ok" /\ calls[1].attempts > 0
    /\ calls[2].pc = "loop" /\ calls[2].attempts > 0
    /\ calls[1].json_str # calls[2].json_str

\* C23 (as claimed): when repair_json returns r for the text x, parse_value
\* of r gives what parse_value of x gave
C23_RepairIsFixedPoint ==
    (Done /\ repaired.ok) =>
        ParseValueAlone(repaired.text, parser.options) = result

\* C24: in every ParseState the stack is non-empty, its bottom frame is Root
\* and no other frame is Root
C24_StackBottomIsRoot ==
    built =>
        /\ Len(stack) >= 1 /\ stack[1] = "Root"
        /\ \A i \in 2..Len(stack) : stack[i] # "Root"
        /\ prev # NoState =>
            /\ Len(prev.stack) >= 1 /\ prev.stack[1] = "Root"

\* CommaHandler called pop_context with Root alone on the stack, and Root stayed
C24_Witness ==
    /\ built /\ log # <<>> /\ Last(log) = "CommaHandler"
    /\ prev.stack = <<"Root">> /\ CurrentChar(AfterComma(prev)) = "}"
    /\ output = prev.output \o <<"}">>
    /\ stack = <<"Root">>

\* C25: after the prelude and after every handler or strategy the driver
\* invokes, position is at most the number of characters of the input, and
\* the input is the trimmed text still
C25_PositionWithinInput ==
    built =>
        /\ position <= Len(input)
        /\ input = Trim(json_str)
        /\ position \in Nat

\* a nine-character literal, a seven-character fence or a digraph was consumed
\* up to the last character of the input
C25_Witness ==
    /\ built /\ log # <<>> /\ position = Len(input)
    /\ \/ Last(log) = "LiteralHandler" /\ position = prev.position + 9
       \/ Last(log) = "CodeBlockMarkersStrategy" /\ position = prev.position + 7
       \/ Last(log) = "WhitespaceHandler" /\ position = prev.position + 2

WithoutIndex(list, i) == SubSeq(list, 1, i - 1) \o SubSeq(list, i + 1, Len(list))

IndexIn(list, x) == CHOOSE i \in 1..Len(list) : list[i] = x

\* C28: the strategy list is in non-increasing priority order after
\* construction and after every register_strategy; a registration keeps the
\* order of the strategies already there and puts the new one behind those of
\* equal priority (TrimStrayBefore stays in front of TrimStrayAfter); a call
\* of try_repair_strategies applies the first strategy of the list whose
\* can_repair holds, and no other
C28_StrategiesByPriorityThenRegistration ==
    /\ [](LET list == parser.repair_strategies IN
            /\ \A i \in 1..(Len(list) - 1) : PriorityOf(list[i]) >= PriorityOf(list[i + 1])
            /\ IndexIn(list, "TrimStrayContentInBeginningStrategy")
                    < IndexIn(list, "TrimStrayContentInEndStrategy")
            /\ \A i \in 1..Len(DefaultStrategies), j \in 1..Len(DefaultStrategies) :
                    (i < j /\ Priority(DefaultStrategies[i]) = Priority(DefaultStrategies[j]))
                        => IndexIn(list, DefaultStrategies[i]) < IndexIn(list, DefaultStrategies[j]))
    /\ [][parser'.repair_strategies # parser.repair_strategies =>
            LET old == parser.repair_strategies
                new == parser'.repair_strategies
            IN  \E i \in 1..Len(new) :
                    /\ WithoutIndex(new, i) = old
                    /\ \A j \in 1..(i - 1) : PriorityOf(new[j]) >= PriorityOf(new[i])
                    /\ \A j \in (i + 1)..Len(new) : PriorityOf(new[j]) < PriorityOf(new[i])]_vars
    /\ [](log # <<>> =>
            LET list == parser.repair_strategies
                able == {i \in 1..Len(list) : CanRepairOf(list[i], prev, error)}
            IN  IF able = {} THEN Last(log) = "none" /\ St = prev
                ELSE LET first == CHOOSE i \in able : \A j \in able : i <= j IN
                     /\ Last(log) = list[first]
                     /\ St = RepairOf(list[first], prev, error))

\* with a strategy of priority 70 registered after construction,
\* try_repair_strategies on stray text at Root applied TrimStrayBefore, the
\* first of the three able strategies of that priority
C28_Witness ==
    /\ log = <<"TrimStrayContentInBeginningStrategy">>
    /\ \E i \in 1..Len(parser.repair_strategies) : parser.repair_strategies[i] = "custom_70"
    /\ CanRepairOf("custom_70", prev, error)
    /\ CanRepairOf("TrimStrayContentInEndStrategy", prev, error)
    /\ position = 3

\* C29: no step of parse_value, and so no handler, strategy or driver step,
\* makes position smaller
C29_CursorMonotone ==
    /\ [][position' >= position]_vars
    /\ []((built /\ log # <<>>) => position >= prev.position)

\* the cursor has moved forward twice, the second time by more than one character
C29_Witness ==
    /\ built /\ Len(log) >= 2
    /\ prev.position > 0 /\ position > prev.position + 1

\* C30 (as claimed): a `}` or `]` at the cursor while the top of the stack is
\* Root is not written to output by the handler or strategy that consumes it
C30_NoCloserWrittenAtRoot ==
    (/\ built /\ log # <<>> /\ prev.input = input
     /\ CurrentContext(prev) = "Root" /\ IsCloser(CurrentChar(prev))) =>
        output = prev.output

\* the index in text of the first quote q at or after index i that no backslash
\* escapes, 0 when there is none
RECURSIVE ClosingQuoteAt(_, _, _)
ClosingQuoteAt(text, i, q) ==
    IF i > Len(text) THEN 0
    ELSE IF text[i] = q THEN i
    ELSE IF text[i] = BS THEN ClosingQuoteAt(text, i + 2, q)
    ELSE ClosingQuoteAt(text, i + 1, q)

\* the quote the last StringHandler call started on, and where its string ends
OpeningQuote == prev.input[prev.position + 1]
ClosingQuote == ClosingQuoteAt(prev.input, prev.position + 2, OpeningQuote)

ValueContextOf(q) == IF q = DQ THEN "DoubleQuoteValue" ELSE "SingleQuoteValue"
PropertyContextOf(q) == IF q = DQ THEN "DoubleQuoteProperty" ELSE "SingleQuoteProperty"

\* the stack after the opening quote as the transition table gives it
OpenedByTable ==
    IF Last(prev.stack) = "Colon"
        THEN Append(AllButLast(prev.stack), ValueContextOf(OpeningQuote))
    ELSE IF Last(prev.stack) = "Array"
        THEN Append(prev.stack, ValueContextOf(OpeningQuote))
    ELSE Append(prev.stack, PropertyContextOf(OpeningQuote))

\* the same, a key frame on top being kept as it is
OpenedOrConfirmed ==
    IF IsKey(Last(prev.stack)) THEN prev.stack ELSE OpenedByTable

\* StringHandler ran last, opened the string with the stack `opened`, copied
\* the characters up to the closing quote verbatim between two `"`, and
\* popped exactly when `opened` ends in a value context
StringCopiedFrom(opened) ==
    /\ input = prev.input
    /\ position = ClosingQuote
    /\ output = prev.output \o <<DQ>>
                  \o SubSeq(input, prev.position + 2, ClosingQuote - 1) \o <<DQ>>
    /\ stack = IF Last(opened) \in {"DoubleQuoteValue", "SingleQuoteValue"}
               THEN AllButLast(opened) ELSE opened

\* StringHandler ran last on a string the input does not close: everything
\* left is copied behind one `"` and the frame `opened` stays
StringCopiedOpen(opened) ==
    /\ input = prev.input
    /\ position = Len(input)
    /\ output = prev.output \o <<DQ>> \o SubSeq(input, prev.position + 2, Len(input))
    /\ stack = opened

StringHandlerRan == built /\ log # <<>> /\ Last(log) = "StringHandler"

\* C31 (as claimed): StringHandler on an opening quote q sets the context by
\* the table (Colon replaced by the value context of q, the value context pushed
\* on Array, the property context of q pushed on anything else), copies up to
\* the closing quote verbatim, backslash pairs included, writes `"` and pops
\* iff the context is a value context
C31_StringHandlerByTable ==
    (StringHandlerRan /\ ClosingQuote # 0) => StringCopiedFrom(OpenedByTable)

\* C31 (amended): as claimed, except that on a key context StringHandler
\* pushes nothing and keeps the key frame; a string the input does not close is
\* copied to the end of the input with no closing `"` and no pop
C31_StringHandlerConfirmsKey ==
    StringHandlerRan =>
        IF ClosingQuote # 0 THEN StringCopiedFrom(OpenedOrConfirmed)
        ELSE StringCopiedOpen(OpenedOrConfirmed)

\* StringHandler ran on a closed string with a key frame on top and left the
\* stack as long as it was
C31_Witness ==
    /\ StringHandlerRan /\ ClosingQuote # 0
    /\ IsKey(Last(prev.stack)) /\ stack = prev.stack

\* C32: NumberHandler on a property context (DoubleQuoteProperty or
\* SingleQuoteProperty) pops it, writes `:` and the numeric lexeme as a value,
\* and leaves the stack one frame shorter, writing no `"`
C32_NumberAfterKeyIsValue ==
    (built /\ log # <<>> /\ Last(log) = "NumberHandler" /\ IsKey(Last(prev.stack))) =>
        /\ stack = AllButLast(prev.stack)
        /\ Consumed # <<>>
        /\ output = prev.output \o <<":">> \o Consumed
        /\ DQ \notin Range(Emitted)

\* C33: every handler or strategy leaves output a continuation of what it
\* found, except close-out, which may first drop exactly one trailing `,`: a
\* comma that is the last character of output and lies outside every string
C33_OutputAppendOnly ==
    (built /\ log # <<>>) =>
        \/ StartsWith(output, prev.output)
        \/ /\ Last(log) = "TruncationRepairStrategy"
           /\ EndsWithChar(prev.output, ",")
           /\ ~EndsInsideString(prev.output)
           /\ StartsWith(output, AllButLast(prev.output))

\* aggressively_close_scopes has returned, with the option on or off
Closed == pc = "done" /\ repaired.ok
AggressiveOn == parser.options.aggressive_truncation_repair

\* what the returned string holds behind the prefix p
Behind(p) == SubSeq(repaired.text, Len(p) + 1, Len(repaired.text))

\* closing characters only: at most one quote, then `}` and `]`
OnlyClosing(t) ==
    \A i \in 1..Len(t) : t[i] \in {"}", "]"} \/ (i = 1 /\ t[i] \in {DQ, SQ})

\* C34 (as claimed): with the option on the returned string is the trimmed
\* input followed by closing characters only; with the option off it is the
\* input itself
C34_OnlyAppends ==
    Closed =>
        IF AggressiveOn
        THEN StartsWith(repaired.text, Trim(json_str)) /\ OnlyClosing(Behind(Trim(json_str)))
        ELSE repaired.text = json_str

\* C34 (amended): as claimed, except that a `,` that ends the trimmed input
\* outside every string is removed before the closers are appended; no other
\* character of the input is removed or changed
C34_AppendsAfterCommaTrim ==
    Closed =>
        IF AggressiveOn
        THEN LET t == Trim(json_str) IN
             IF EndsWithChar(t, ",") /\ ~scan.in_string
             THEN /\ StartsWith(repaired.text, AllButLast(t))
                  /\ \A i \in 1..Len(Behind(AllButLast(t))) :
                        Behind(AllButLast(t))[i] \in {"}", "]"}
             ELSE StartsWith(repaired.text, t) /\ OnlyClosing(Behind(t))
        ELSE repaired.text = json_str

\* a text cut behind a comma came back without the comma and with a closer
C34_Witness ==
    /\ Closed /\ AggressiveOn
    /\ EndsWithChar(Trim(json_str), ",") /\ ~scan.in_string
    /\ Len(Trim(json_str)) > 1
    /\ repaired.text = AllButLast(Trim(json_str)) \o <<"]">>

\* the locals after a scan of the whole text t by the rules of the pass
Rescan(t) == ScanAll(NewState(t), ScanStart).locals

\* the closer of a scope
CloserOf(context) == IF context = "Object" THEN "}" ELSE "]"

\* C35: the string aggressively_close_scopes returns is closed: scanned again
\* by the same rules it ends outside every string with no Object or Array
\* scope open, and it ends with the closers of the scopes the input left open,
\* the innermost scope first
C35_ReturnedStringIsClosed ==
    (Closed /\ AggressiveOn) =>
        LET open == Len(scan.scope_stack) - 1
            text == repaired.text
        IN  /\ ~Rescan(text).in_string
            /\ Len(Rescan(text).scope_stack) = 1
            /\ Len(text) >= open
            /\ \A i \in 1..open :
                text[Len(text) - open + i]
                    = CloserOf(scan.scope_stack[Len(scan.scope_stack) - i + 1][1])

-----------------------------------------------------------------------------
(* The host binding: to_js_value and hello *)

\* the values of the host runtime
JsNull == [t |-> "null", s |-> <<>>, e |-> <<>>, o |-> {}]
JsBoolean(b) == [t |-> "boolean", s |-> <<b>>, e |-> <<>>, o |-> {}]
JsNumber(lex) == [t |-> "number", s |-> lex, e |-> <<>>, o |-> {}]
JsString(cs) == [t |-> "string", s |-> cs, e |-> <<>>, o |-> {}]
JsArray(vs) == [t |-> "array", s |-> <<>>, e |-> vs, o |-> {}]
JsObject(ms) == [t |-> "object", s |-> <<>>, e |-> <<>>, o |-> ms]

\* to_js_value: the Array arm translates every element into a local vec and
\* returns js_array as cx.empty_array() made it (the set is commented out)
RECURSIVE ToJsValue(_)
ToJsValue(value) ==
    IF value.t = "lit" THEN
        IF value.s = <<"null">> THEN JsNull ELSE JsBoolean(value.s = <<"true">>)
    ELSE IF value.t = "num" THEN JsNumber(value.s)
    ELSE IF value.t = "str" THEN JsString(value.s)
    ELSE IF value.t = "arr" THEN JsArray(<<>>)
    ELSE JsObject({<<m[1], ToJsValue(m[2])>> : m \in value.o})

\* the strings the host passes to hello
HelloInputs == Inputs

\* hello: the argument, and FuzzyJsonParser::new() with the default options
HelloInit ==
    /\ Init
    /\ json_str \in HelloInputs
    /\ auto_repair /\ max_repair_attempts = DefaultMaxRepairAttempts

\* hello: parser.parse(&rust_string) is Ok, the value is translated and returned
HelloReturns ==
    /\ pc = "done"
    /\ result.kind = "Ok"
    /\ host' = [ok |-> TRUE, value |-> ToJsValue(result.value)]
    /\ pc' = "returned"
    /\ UNCHANGED <<json_str, auto_repair, max_repair_attempts, built, input, position,
                   stack, output, error, attempts, result, repaired, log, prev, parser,
                   calls, scan>>

\* hello: parser.parse(&rust_string) is Err and unwrap panics
HelloPanics ==
    /\ pc = "done"
    /\ result.kind # "Ok"
    /\ pc' = "panicked"
    /\ UNCHANGED <<json_str, auto_repair, max_repair_attempts, built, input, position,
                   stack, output, error, attempts, result, repaired, log, prev, parser,
                   calls, scan, host>>

\* hello: the steps of parse_value under the default options, then the return
HelloNext ==
    \/ ParseValueStrict
    \/ BeginRepair
    \/ Prelude
    \/ WhitespaceStep
    \/ LiteralStep
    \/ ColonStep
    \/ CommaStep
    \/ StringStep
    \/ NumberStep
    \/ ObjectStep
    \/ ArrayStep
    \/ NoQuotesKeyStep
    \/ StrategyStep
    \/ Unhandled
    \/ AfterLoop
    \/ ReturnRepaired
    \/ HelloReturns
    \/ HelloPanics

HelloSpec == HelloInit /\ [][HelloNext]_vars

\* the host value that holds every element and every member of a JSON value
RECURSIVE Translation(_)
Translation(value) ==
    IF value.t = "arr"
        THEN JsArray([i \in 1..Len(value.e) |-> Translation(value.e[i])])
    ELSE IF value.t = "obj"
        THEN JsObject({<<m[1], Translation(m[2])>> : m \in value.o})
    ELSE ToJsValue(value)

\* C36: to_js_value turns a JSON array of n elements into a host array of n
\* elements, the i-th being the translation of the i-th, and a JSON object
\* into a host object with every key and its translated value
C36_ArraysAndObjectsTranslated ==
    (pc = "returned" /\ host.ok) =>
        /\ result.value.t = "arr" =>
            /\ host.value.t = "array"
            /\ Len(host.value.e) = Len(result.value.e)
            /\ \A i \in 1..Len(result.value.e) :
                host.value.e[i] = Translation(result.value.e[i])
        /\ result.value.t = "obj" =>
            /\ host.value.t = "object"
            /\ host.value.o = {<<m[1], Translation(m[2])>> : m \in result.value.o}

\* the text t without the whitespace that lies outside its string literals
RECURSIVE Squeeze(_, _, _)
Squeeze(t, inside, escaped) ==
    IF t = <<>> THEN <<>>
    ELSE IF escaped THEN <<Head(t)>> \o Squeeze(Tail(t), inside, FALSE)
    ELSE IF inside /\ Head(t) = BS THEN <<Head(t)>> \o Squeeze(Tail(t), inside, TRUE)
    ELSE IF Head(t) = DQ THEN <<Head(t)>> \o Squeeze(Tail(t), ~inside, FALSE)
    ELSE IF ~inside /\ IsJsonWs(Head(t)) THEN Squeeze(Tail(t), inside, FALSE)
    ELSE <<Head(t)>> \o Squeeze(Tail(t), inside, FALSE)

\* the iterations of the loop from st until the cursor is at j or beyond:
\* `handlers` tells whether a handler took every one of them
RECURSIVE HandlersUpTo(_, _)
HandlersUpTo(st, j) ==
    IF st.position >= j THEN [handlers |-> TRUE, state |-> st]
    ELSE IF SelectedHandler(st) = "none" THEN [handlers |-> FALSE, state |-> st]
    ELSE HandlersUpTo(Handle(SelectedHandler(st), st), j)

\* the ends j of the strict objects and arrays that start at the cursor
DocumentEnds ==
    {j \in (position + 1)..Len(input) :
        /\ input[j] \in {"}", "]"}
        /\ StrictAccepts(SubSeq(input, position + 1, j))}

\* the loop is at Root with the cursor on the first character of a document
AtDocument ==
    /\ built /\ pc = "loop" /\ stack = <<"Root">>
    /\ CurrentChar(St) \in {"{", "["}

\* C37: when the loop stands at Root on the first character of a strict JSON
\* object or array D, handlers alone take every iteration up to the end of D,
\* the cursor then stands right behind D with the stack back at Root, and what
\* was written is D without the whitespace outside its strings
C37_StrictDocumentPassesThrough ==
    AtDocument =>
        \A j \in DocumentEnds :
            LET r == HandlersUpTo(St, j) IN
            /\ r.handlers
            /\ r.state.position = j
            /\ r.state.stack = <<"Root">>
            /\ r.state.output =
                output \o Squeeze(SubSeq(input, position + 1, j), FALSE, FALSE)

\* the loop stands on a document that follows a prefix and holds whitespace, a
\* string and a nested value
C37_Witness ==
    /\ AtDocument /\ position > 0
    /\ \E j \in DocumentEnds :
        LET D == SubSeq(input, position + 1, j) IN
        /\ Len(Squeeze(D, FALSE, FALSE)) < Len(D)
        /\ \E i \in 2..Len(D) : D[i] \in {"{", "["}
        /\ \E i \in 1..Len(D) : D[i] = DQ

\* C38: when the driver is about to select a handler or strategy with input
\* left, the top of the stack is no value context, and a Colon frame is
\* nowhere but on top of the stack
C38_ValueAndColonFramesTransient ==
    (built /\ pc \in {"prelude", "loop"} /\ ~IsFinished(St)) =>
        /\ CurrentContext(St) \notin {"DoubleQuoteValue", "SingleQuoteValue"}
        /\ \A i \in 1..(Len(stack) - 1) : stack[i] # "Colon"

\* StringHandler took a quoted value behind a colon: the Colon frame became a
\* value frame, which is gone again when the driver selects next
C38_Witness ==
    /\ built /\ pc = "loop" /\ ~IsFinished(St)
    /\ Last(log) = "StringHandler" /\ Last(prev.stack) = "Colon"
    /\ stack = AllButLast(prev.stack)

Shadowed == {"IncompleteArrayStrategy", "TrimStrayContentInEndStrategy"}

C40_TooManyOnlyWithInputLeft ==
    (Done /\ built /\ result.kind = "RepairFailed") => ~IsFinished(St)

=============================================================================
